---- MODULE Spec2Model ----
(***************************************************************************)
(* State-machine model of the points-settlement core of                    *)
(* src/mood_speculator_v2.py: directional ("PPP") wagers, their boosts,    *)
(* their resolution against observations, the trade listings and the      *)
(* balance that remaining_points reports.                                  *)
(*                                                                         *)
(* Units.  Money (points, amounts, prices, payouts) is counted in          *)
(* hundredths of a point and odds and boost values in hundredths, because  *)
(* ppp_bet rounds the amount to 2 decimals and the odds engine rounds the  *)
(* odds to 2 decimals.  500.0 points is 500 * Scale; a cote of 1.3 is 130. *)
(* The float tolerances 1e-6 / 1e-9 / 1e-12 of the budget, price and cap   *)
(* comparisons are below one unit and vanish.                              *)
(*                                                                         *)
(* Time.  A calendar day is an integer, a clock time HH:MM the integer     *)
(* HH*100+MM, a timestamp the number of minutes since day 0, 00:00.       *)
(* Rain is counted in tenths of a millimetre.                              *)
(***************************************************************************)
EXTENDS Integers, Sequences, FiniteSets, TLC

VARIABLES
    today,              \* today_paris_date(): the current calendar day
    points,             \* user.points          [user -> money]
    bonus_points,       \* user.bonus_points    [user -> money]
    bolts,              \* user.bolts           [user -> Nat]
    PPPBet,             \* table ppp_bet: sequence of rows, id = index
    PPPBoost,           \* table ppp_boosts: sequence of rows
    BetListing,         \* table bet_listing: sequence of rows, id = index
    WetBet,             \* table wet_bets: sequence of rows, id = index
    meteo_obs_hourly,   \* table meteo_obs_hourly: set of rows
    POINTS_RECONCILE,   \* os.environ POINTS_RECONCILE == "1"
    uq_pppboost_user_date, \* the legacy UNIQUE(user_id, bet_date) exists
    HumidityObservation, \* table humidity_observation: set of rows
    ChatMessage,        \* table chat_messages: sequence of rows
    Position,           \* table position: sequence of rows, id = index
    DailyMood,          \* table daily_mood: set of rows, the_date unique
    PendingMood,        \* table pending_mood: set of rows, the_date unique
    bal_pierre,         \* user.bal_pierre     [user -> millionths]
    bal_marie,          \* user.bal_marie      [user -> millionths]
    threads,            \* requests in flight: [thread -> local state]
    last                \* the last request served and its response

vars == <<today, points, bonus_points, bolts, PPPBet, PPPBoost, BetListing,
          WetBet, meteo_obs_hourly, POINTS_RECONCILE, uq_pppboost_user_date,
          HumidityObservation, ChatMessage, Position, DailyMood, PendingMood,
          bal_pierre, bal_marie, threads, last>>

db == <<points, bonus_points, bolts, PPPBet, PPPBoost, BetListing, WetBet>>

\* the tables and balances of the mood market
mood == <<Position, DailyMood, PendingMood, bal_pierre, bal_marie>>

-----------------------------------------------------------------------------
(* Bounds of the model *)

MaxBets == 4          \* rows of ppp_bet in the placement scenarios
MaxBolts == 3         \* bolts of a user in the boost scenario
MaxTradeBets == 2     \* rows of ppp_bet in the trade scenario
MaxListings == 2      \* rows of bet_listing
MaxDay == 2           \* the clock stops advancing at this day

-----------------------------------------------------------------------------
(* Program constants *)

Scale == 100
BUDGET_INITIAL == 500 * Scale
MAX_BOOSTS_PER_TARGET == 5
BOOST_UNIT == 5 * Scale
cap_value == MAX_BOOSTS_PER_TARGET * BOOST_UNIT
MAX_OFFSET == 31

Users == {1, 2}
Choices == {"PLUIE", "PAS_PLUIE"}
NoThread == [pc |-> "idle"]
Threads == {1, 2}

Max(a, b) == IF a >= b THEN a ELSE b
Min(a, b) == IF a <= b THEN a ELSE b
Abs(a) == IF a >= 0 THEN a ELSE 0 - a

RECURSIVE SumOver(_, _)
SumOver(S, f) ==
    IF S = {} THEN 0
    ELSE LET x == CHOOSE y \in S : TRUE IN f[x] + SumOver(S \ {x}, f)

Ids(table) == 1..Len(table)

Ts(day, hhmm) == day * 1440 + (hhmm \div 100) * 60 + (hhmm % 100)

-----------------------------------------------------------------------------
(* Odds engine *)

PPP_ODDS(d) ==
    CASE d = 0 -> 0
      [] d \in {1, 2} -> 100
      [] d \in 3..10 -> 100 + (d - 2) * 10
      [] d \in 11..18 -> 200
      [] d \in {19, 20} -> 250
      [] d = 21 -> 240
      [] d = 22 -> 230
      [] d \in {23, 24} -> 220
      [] d = 25 -> 200
      [] d = 26 -> 210
      [] d = 27 -> 240
      [] d = 28 -> 270
      [] d = 29 -> 280
      [] d = 30 -> 290
      [] d = 31 -> 300
      [] OTHER -> 0

ppp_odds_for_offset(d) == PPP_ODDS(d)

\* (ok, msg, offset, odds); odds 0 stands for None
ppp_validate_can_bet(target, tday) ==
    IF target < tday THEN [ok |-> FALSE, msg |-> "past", odds |-> 0]
    ELSE IF target - tday < 1 THEN [ok |-> FALSE, msg |-> "today", odds |-> 0]
    ELSE IF target - tday > MAX_OFFSET
         THEN [ok |-> FALSE, msg |-> "too_far", odds |-> 0]
    ELSE IF ppp_odds_for_offset(target - tday) = 0
         THEN [ok |-> FALSE, msg |-> "no_odds", odds |-> 0]
    ELSE [ok |-> TRUE, msg |-> "", odds |-> ppp_odds_for_offset(target - tday)]

-----------------------------------------------------------------------------
(* Balance ledger: remaining_points *)

ppp_active_funded(uid) ==
    LET S == {i \in Ids(PPPBet) : /\ PPPBet[i].user_id = uid
                                  /\ PPPBet[i].status = "ACTIVE"
                                  /\ PPPBet[i].funded_from_balance = 1}
    IN SumOver(S, [i \in S |-> PPPBet[i].amount])

wet_active(uid) ==
    LET S == {i \in Ids(WetBet) : /\ WetBet[i].user_id = uid
                                  /\ WetBet[i].status = "ACTIVE"}
    IN SumOver(S, [i \in S |-> WetBet[i].amount])

wet_won(uid) ==
    LET S == {i \in Ids(WetBet) : /\ WetBet[i].user_id = uid
                                  /\ WetBet[i].status = "RESOLVED"}
    IN SumOver(S, [i \in S |-> WetBet[i].payout])

\* sale_price = 0 stands for NULL; the payload's ask_price is the fallback
\* when the sum of sale_price is not > 0
sum_price_generic(S) ==
    LET v == SumOver(S, [i \in S |-> BetListing[i].sale_price])
    IN IF v > 0 THEN v
       ELSE SumOver(S, [i \in S |-> BetListing[i].ask_price])

sum_trade_spent(uid) ==
    sum_price_generic({i \in Ids(BetListing) :
        BetListing[i].status = "SOLD" /\ BetListing[i].buyer_id = uid})

sum_trade_earned(uid) ==
    sum_price_generic({i \in Ids(BetListing) :
        BetListing[i].status = "SOLD" /\ BetListing[i].user_id = uid})

ledger_points(uid) ==
    Max(0, BUDGET_INITIAL - ppp_active_funded(uid)
           - wet_active(uid) + wet_won(uid)
           - sum_trade_spent(uid) + sum_trade_earned(uid)
           + bonus_points[uid])

\* a selection that never lets the ledger override the stored value
remaining_points_stored_first(uid, readable) ==
    IF readable THEN points[uid] + bonus_points[uid] ELSE ledger_points(uid)

\* the value returned when the SELECT of user.points succeeds (readable)
\* or fails (points_now stays None)
remaining_points_read(uid, readable) ==
    LET points_with_bonus == points[uid] + bonus_points[uid]
    IN IF ~readable THEN ledger_points(uid)
       ELSE IF POINTS_RECONCILE
               /\ Abs(points_with_bonus - ledger_points(uid)) > Scale \div 2
       THEN ledger_points(uid)
       ELSE points_with_bonus

remaining_points(uid) == remaining_points_read(uid, TRUE)

\* user_solde: the balance shown to the user; nothing is written
user_solde(uid, readable) ==
    /\ last' = [op |-> "user_solde", uid |-> uid, err |-> "",
                arg |-> [readable |-> readable,
                         value |-> remaining_points_read(uid, readable)]]
    /\ UNCHANGED <<today, points, bonus_points, bolts, PPPBet, PPPBoost,
                   BetListing, WetBet, meteo_obs_hourly, POINTS_RECONCILE,
                   HumidityObservation, ChatMessage, mood,
                   uq_pppboost_user_date, threads>>

-----------------------------------------------------------------------------
(* Directional wager placement: POST /ppp/bet *)

Opposite(choice) == IF choice = "PLUIE" THEN "PAS_PLUIE" ELSE "PLUIE"

\* no 20-year history is available to the odds engine: the fixed table is
\* the sole basis, for both sides
ppp_combined_odds(target) ==
    LET v == ppp_validate_can_bet(target, today)
    IN IF ~v.ok \/ v.odds = 0
       THEN [error |-> v.msg, combined_pluie |-> 0, combined_pas_pluie |-> 0]
       ELSE [error |-> "", combined_pluie |-> v.odds,
             combined_pas_pluie |-> v.odds]

\* the odds ppp_bet stores: the combined odds of the side, 1.0 when the
\* engine reports an error or a value that is not > 0
final_odds(target, choice) ==
    LET comb == ppp_combined_odds(target)
        f == IF choice = "PLUIE" THEN comb.combined_pluie
             ELSE comb.combined_pas_pluie
    IN IF comb.error = "" /\ f > 0 THEN f ELSE 1 * Scale

existing_bets(uid, target, sid) ==
    {i \in Ids(PPPBet) : /\ PPPBet[i].user_id = uid
                         /\ PPPBet[i].bet_date = target
                         /\ PPPBet[i].station_id = sid
                         /\ PPPBet[i].status = "ACTIVE"}

hours_set(uid, target, sid) ==
    {PPPBet[i].target_time : i \in existing_bets(uid, target, sid)}

has_opposite(uid, target, sid, hhmm, choice) ==
    \E i \in existing_bets(uid, target, sid) :
        /\ PPPBet[i].target_time = hhmm
        /\ PPPBet[i].choice = Opposite(choice)

\* a slot rule that lets a fourth distinct time in
slot_limit_hit_four(uid, target, sid, hhmm) ==
    /\ hhmm \notin hours_set(uid, target, sid)
    /\ Cardinality(hours_set(uid, target, sid)) >= 4

slot_limit_hit(uid, target, sid, hhmm) ==
    /\ hhmm \notin hours_set(uid, target, sid)
    /\ Cardinality(hours_set(uid, target, sid)) >= 3

\* a window that lets a same-day placement in
window_error_same_day(target) ==
    IF target - today < 0 THEN "today_forbidden"
    ELSE IF target - today > MAX_OFFSET THEN "too_far"
    ELSE ""

window_error(target) ==
    IF target - today < 1 THEN "today_forbidden"
    ELSE IF target - today > MAX_OFFSET THEN "too_far"
    ELSE ""

budget_ok(uid, amount) == ~(amount > remaining_points(uid))

\* the checks of ppp_bet in the order of the code; "" when all pass
ppp_bet_error(uid, target, sid, hhmm, choice, amount) ==
    IF choice \notin Choices \/ amount <= 0 THEN "invalid"
    ELSE IF window_error(target) # "" THEN window_error(target)
    ELSE IF has_opposite(uid, target, sid, hhmm, choice) THEN "opposite"
    ELSE IF slot_limit_hit(uid, target, sid, hhmm) THEN "slot_limit"
    ELSE IF ~budget_ok(uid, amount) THEN "budget"
    ELSE ""

new_bet(uid, target, sid, hhmm, choice, amount, odds) ==
    [user_id |-> uid, bet_date |-> target, station_id |-> sid,
     target_time |-> hhmm, choice |-> choice, amount |-> amount,
     odds |-> odds, status |-> "ACTIVE", verdict |-> "", outcome |-> "",
     preset_outcome |-> "", locked_for_trade |-> 0,
     funded_from_balance |-> 1]

\* a commit that stores the row and leaves user.points as it is
ppp_bet_commit_no_debit(uid, target, sid, hhmm, choice, amount, odds) ==
    /\ PPPBet' = Append(PPPBet,
                        new_bet(uid, target, sid, hhmm, choice, amount, odds))
    /\ points' = points

\* INSERT of the row and relative UPDATE of user.points, one commit
ppp_bet_commit(uid, target, sid, hhmm, choice, amount, odds) ==
    /\ PPPBet' = Append(PPPBet,
                        new_bet(uid, target, sid, hhmm, choice, amount, odds))
    /\ points' = [points EXCEPT ![uid] = @ - amount]

bet_args(target, sid, hhmm, choice, amount) ==
    [target |-> target, sid |-> sid, hhmm |-> hhmm, choice |-> choice,
     amount |-> amount]

\* the request served without interleaving
ppp_bet(uid, target, sid, hhmm, choice, amount) ==
    LET err == ppp_bet_error(uid, target, sid, hhmm, choice, amount)
    IN /\ IF err = ""
          THEN ppp_bet_commit(uid, target, sid, hhmm, choice, amount,
                              final_odds(target, choice))
          ELSE UNCHANGED <<PPPBet, points>>
       /\ last' = [op |-> "ppp_bet", uid |-> uid, err |-> err,
                   arg |-> bet_args(target, sid, hhmm, choice, amount)]
       /\ UNCHANGED <<today, bonus_points, bolts, PPPBoost, BetListing,
                      WetBet, meteo_obs_hourly, POINTS_RECONCILE,
                      HumidityObservation, ChatMessage, mood, uq_pppboost_user_date,
                      threads>>

-----------------------------------------------------------------------------
(* Initial states *)

NoRequest == [op |-> "none", uid |-> 0, err |-> "", arg |-> <<>>]

InitDb ==
    /\ today = 0
    /\ points = [u \in Users |-> BUDGET_INITIAL]
    /\ bonus_points = [u \in Users |-> 0]
    /\ PPPBet = <<>>
    /\ PPPBoost = <<>>
    /\ BetListing = <<>>
    /\ WetBet = <<>>
    /\ meteo_obs_hourly = {}
    /\ HumidityObservation = {}
    /\ ChatMessage = <<>>
    /\ Position = <<>>
    /\ DailyMood = {}
    /\ PendingMood = {}
    /\ bal_pierre = [u \in Users |-> 0]
    /\ bal_marie = [u \in Users |-> 0]
    /\ threads = [t \in Threads |-> NoThread]
    /\ last = NoRequest

-----------------------------------------------------------------------------
(* Scenario "slots": one user's placements on one calendar day *)

SlotTimes == {900, 1500, 1800, 2100}

InitSlots ==
    /\ InitDb
    /\ bolts = [u \in Users |-> 10]
    /\ POINTS_RECONCILE = FALSE
    /\ uq_pppboost_user_date = FALSE

NextSlots ==
    \E hhmm \in SlotTimes, choice \in Choices :
        /\ Len(PPPBet) < MaxBets
              \/ ppp_bet_error(1, 1, "", hhmm, choice, 100 * Scale) # ""
        /\ ppp_bet(1, 1, "", hhmm, choice, 100 * Scale)

SpecSlots == InitSlots /\ [][NextSlots]_vars

-----------------------------------------------------------------------------
(* Scenario "window": placements around the edges of the calendar *)

WindowTargets == {-1, 0, 1, MAX_OFFSET, MAX_OFFSET + 1}
WindowAmounts == {100 * Scale, 300 * Scale}

NextWindow ==
    \E target \in WindowTargets, choice \in Choices,
       amount \in WindowAmounts :
        /\ Len(PPPBet) < MaxBets
              \/ ppp_bet_error(1, target, "", 1800, choice, amount) # ""
        /\ ppp_bet(1, target, "", 1800, choice, amount)

SpecWindow == InitSlots /\ [][NextWindow]_vars

-----------------------------------------------------------------------------
(* POST /ppp/boost *)

BoostRows(uid, d, sid) ==
    {i \in Ids(PPPBoost) : /\ PPPBoost[i].user_id = uid
                           /\ PPPBoost[i].bet_date = d
                           /\ PPPBoost[i].station_id = sid}

\* SELECT COALESCE(SUM(value), 0) over the rows of the target
boost_total(uid, d, sid) ==
    SumOver(BoostRows(uid, d, sid), [i \in Ids(PPPBoost) |-> PPPBoost[i].value])

\* float(data.get("value") or BOOST_UNIT): a missing or zero value is one unit
inc_req(value) == IF value = 0 THEN BOOST_UNIT ELSE value

\* a cap test that never fires
cap_reached_never(cur_total) == FALSE

cap_reached(cur_total) == cap_value - cur_total <= 0

\* a guard that lets a user without bolts buy
upd_bolts_unguarded(uid) == TRUE

\* UPDATE user SET bolts = bolts - 1 WHERE id = :uid AND bolts > 0 (rowcount 1)
upd_bolts(uid) == bolts[uid] > 0

\* the INSERT half of the upsert meets the two-column unique constraint
\* when the table still carries it and the user already boosted that date
\* for another scope
upsert_conflict(uid, d, sid) ==
    /\ uq_pppboost_user_date
    /\ BoostRows(uid, d, sid) = {}
    /\ \E i \in Ids(PPPBoost) : /\ PPPBoost[i].user_id = uid
                                /\ PPPBoost[i].bet_date = d

upsert(uid, d, sid, inc) ==
    IF BoostRows(uid, d, sid) = {}
    THEN Append(PPPBoost, [user_id |-> uid, bet_date |-> d, station_id |-> sid,
                           value |-> Min(inc, cap_value)])
    ELSE [i \in Ids(PPPBoost) |->
            IF i \in BoostRows(uid, d, sid)
            THEN [PPPBoost[i] EXCEPT !.value = Min(@ + inc, cap_value)]
            ELSE PPPBoost[i]]

ppp_boost_error(uid, date_ok, d, sid, value) ==
    IF inc_req(value) <= 0 THEN "bad_value"
    ELSE IF ~date_ok THEN "bad_date"
    ELSE IF cap_reached(boost_total(uid, d, sid)) THEN "cap_reached"
    ELSE IF ~upd_bolts(uid) THEN "no_bolts"
    ELSE IF upsert_conflict(uid, d, sid) THEN "conflict"
    ELSE ""

boost_args(date_ok, d, sid, value) ==
    [date_ok |-> date_ok, target |-> d, sid |-> sid, value |-> value]

ppp_boost(uid, date_ok, d, sid, value) ==
    LET err == ppp_boost_error(uid, date_ok, d, sid, value)
        remaining == cap_value - boost_total(uid, d, sid)
        inc == Min(inc_req(value), remaining)
    IN /\ IF err = ""
          THEN /\ bolts' = [bolts EXCEPT ![uid] = @ - 1]
               /\ PPPBoost' = upsert(uid, d, sid, inc)
          ELSE UNCHANGED <<bolts, PPPBoost>>
       /\ last' = [op |-> "ppp_boost", uid |-> uid, err |-> err,
                   arg |-> boost_args(date_ok, d, sid, value)]
       /\ UNCHANGED <<today, points, bonus_points, PPPBet, BetListing, WetBet,
                      meteo_obs_hourly, POINTS_RECONCILE, HumidityObservation,
                      ChatMessage, mood, uq_pppboost_user_date, threads>>

-----------------------------------------------------------------------------
(* Scenario: one user buying boosts for two scopes of one date, on a table
   with or without the legacy two-column unique constraint *)

BoostScopes == {"", "lfpg_75"}
BoostValues == {0 - 5 * Scale, 0, 10 * Scale, 25 * Scale}

InitBoost ==
    /\ InitDb
    /\ bolts = [u \in Users |-> MaxBolts]
    /\ POINTS_RECONCILE = FALSE
    /\ uq_pppboost_user_date \in BOOLEAN

NextBoost ==
    \E date_ok \in BOOLEAN, sid \in BoostScopes, value \in BoostValues :
        ppp_boost(1, date_ok, 1, sid, value)

SpecBoost == InitBoost /\ [][NextBoost]_vars

-----------------------------------------------------------------------------
(* Trade: POST /api/trade/listings, .../cancel, .../buy, /api/trade/accept *)

\* a field the request body does not carry
None == 0 - 1

\* payload.bet_id of a listing; 0 when the listing references no wager
OpenListingsOf(bet_id) ==
    {i \in Ids(BetListing) : /\ BetListing[i].status = "OPEN"
                             /\ BetListing[i].bet_id = bet_id}

\* stake = payload.stake or payload.amount; the wager's amount only when
\* the body carries neither (0 and absent are both falsy)
listing_stake(bet_id, stake) ==
    IF stake # None /\ stake # 0 THEN stake
    ELSE IF bet_id # 0 THEN PPPBet[bet_id].amount
    ELSE None

listing_ask(bet_id, stake, ask_price) ==
    IF ask_price = None THEN listing_stake(bet_id, stake) ELSE ask_price

\* the checks without the guard against a second OPEN listing of a wager
trade_create_listing_error_no_dup(uid, bet_id, stake, ask_price) ==
    IF bet_id # 0 /\ ( \/ bet_id \notin Ids(PPPBet)
                       \/ PPPBet[bet_id].user_id # uid
                       \/ PPPBet[bet_id].status # "ACTIVE" )
    THEN "bet_not_sellable"
    ELSE IF listing_stake(bet_id, stake) = None
            \/ listing_stake(bet_id, stake) <= 0
    THEN "invalid_stake"
    ELSE IF listing_ask(bet_id, stake, ask_price)
                < listing_stake(bet_id, stake)
    THEN "price_too_low"
    ELSE ""

trade_create_listing_error(uid, bet_id, stake, ask_price) ==
    IF bet_id # 0 /\ ( \/ bet_id \notin Ids(PPPBet)
                       \/ PPPBet[bet_id].user_id # uid
                       \/ PPPBet[bet_id].status # "ACTIVE" )
    THEN "bet_not_sellable"
    ELSE IF listing_stake(bet_id, stake) = None
            \/ listing_stake(bet_id, stake) <= 0
    THEN "invalid_stake"
    ELSE IF listing_ask(bet_id, stake, ask_price)
                < listing_stake(bet_id, stake)
    THEN "price_too_low"
    ELSE IF bet_id # 0 /\ OpenListingsOf(bet_id) # {} THEN "already_listed"
    ELSE ""

listing_args(id, stake, ask_price) ==
    [id |-> id, stake |-> stake, ask_price |-> ask_price]

trade_create_listing(uid, bet_id, stake, ask_price) ==
    LET err == trade_create_listing_error(uid, bet_id, stake, ask_price)
    IN /\ IF err = ""
          THEN /\ BetListing' = Append(BetListing,
                      [user_id |-> uid, status |-> "OPEN", bet_id |-> bet_id,
                       stake |-> listing_stake(bet_id, stake),
                       ask_price |-> listing_ask(bet_id, stake, ask_price),
                       buyer_id |-> 0, sale_price |-> 0])
               /\ PPPBet' = IF bet_id # 0
                            THEN [PPPBet EXCEPT ![bet_id].locked_for_trade = 1]
                            ELSE PPPBet
          ELSE UNCHANGED <<BetListing, PPPBet>>
       /\ last' = [op |-> "trade_create_listing", uid |-> uid, err |-> err,
                   arg |-> listing_args(bet_id, stake, ask_price)]
       /\ UNCHANGED <<today, points, bonus_points, bolts, PPPBoost, WetBet,
                      meteo_obs_hourly, POINTS_RECONCILE, HumidityObservation,
                      ChatMessage, mood, uq_pppboost_user_date, threads>>

\* the checks without the ownership test
trade_cancel_listing_error_any_user(uid, listing_id) ==
    IF listing_id \notin Ids(BetListing) THEN "not_found"
    ELSE IF BetListing[listing_id].status # "OPEN" THEN "not_open"
    ELSE ""

trade_cancel_listing_error(uid, listing_id) ==
    IF listing_id \notin Ids(BetListing) THEN "not_found"
    ELSE IF BetListing[listing_id].user_id # uid THEN "forbidden"
    ELSE IF BetListing[listing_id].status # "OPEN" THEN "not_open"
    ELSE ""

trade_cancel_listing(uid, listing_id) ==
    LET err == trade_cancel_listing_error(uid, listing_id)
        bet_id == BetListing[listing_id].bet_id
    IN /\ IF err = ""
          THEN /\ BetListing' = [BetListing EXCEPT
                                    ![listing_id].status = "CANCELLED"]
               /\ PPPBet' = IF bet_id \in Ids(PPPBet)
                            THEN [PPPBet EXCEPT ![bet_id].locked_for_trade = 0]
                            ELSE PPPBet
          ELSE UNCHANGED <<BetListing, PPPBet>>
       /\ last' = [op |-> "trade_cancel_listing", uid |-> uid, err |-> err,
                   arg |-> listing_args(listing_id, None, None)]
       /\ UNCHANGED <<today, points, bonus_points, bolts, PPPBoost, WetBet,
                      meteo_obs_hourly, POINTS_RECONCILE, HumidityObservation,
                      ChatMessage, mood, uq_pppboost_user_date, threads>>

\* the checks without the budget test
trade_buy_listing_error_no_budget(me_id, listing_id) ==
    IF listing_id \notin Ids(BetListing)
       \/ BetListing[listing_id].status # "OPEN" THEN "not_open"
    ELSE IF BetListing[listing_id].user_id = me_id THEN "cannot_buy_own"
    ELSE IF ~(BetListing[listing_id].ask_price > 0) THEN "bad_price"
    ELSE IF BetListing[listing_id].bet_id = 0 THEN "no_bet_to_transfer"
    ELSE IF BetListing[listing_id].bet_id \notin Ids(PPPBet)
            \/ PPPBet[BetListing[listing_id].bet_id].status # "ACTIVE"
    THEN "bet_not_active"
    ELSE IF PPPBet[BetListing[listing_id].bet_id].bet_date < today
    THEN "expired"
    ELSE ""

trade_buy_listing_error(me_id, listing_id) ==
    IF listing_id \notin Ids(BetListing)
       \/ BetListing[listing_id].status # "OPEN" THEN "not_open"
    ELSE IF BetListing[listing_id].user_id = me_id THEN "cannot_buy_own"
    ELSE IF ~(BetListing[listing_id].ask_price > 0) THEN "bad_price"
    ELSE IF remaining_points(me_id) < BetListing[listing_id].ask_price
    THEN "insufficient_budget"
    ELSE IF BetListing[listing_id].bet_id = 0 THEN "no_bet_to_transfer"
    ELSE IF BetListing[listing_id].bet_id \notin Ids(PPPBet)
            \/ PPPBet[BetListing[listing_id].bet_id].status # "ACTIVE"
    THEN "bet_not_active"
    ELSE IF PPPBet[BetListing[listing_id].bet_id].bet_date < today
    THEN "expired"
    ELSE ""

\* the transfer: the wager changes hands and the listing is sealed; no
\* statement of the handler writes user.points
trade_buy_listing(me_id, listing_id) ==
    LET err == trade_buy_listing_error(me_id, listing_id)
        bet_id == BetListing[listing_id].bet_id
        price == BetListing[listing_id].ask_price
    IN /\ IF err = ""
          THEN /\ PPPBet' = [PPPBet EXCEPT ![bet_id].user_id = me_id,
                                           ![bet_id].locked_for_trade = 0,
                                           ![bet_id].funded_from_balance = 0]
               /\ BetListing' = [BetListing EXCEPT
                                    ![listing_id].status = "SOLD",
                                    ![listing_id].buyer_id = me_id,
                                    ![listing_id].sale_price = price]
          ELSE UNCHANGED <<BetListing, PPPBet>>
       /\ last' = [op |-> "trade_buy_listing", uid |-> me_id, err |-> err,
                   arg |-> listing_args(listing_id, None, None)]
       /\ UNCHANGED <<today, points, bonus_points, bolts, PPPBoost, WetBet,
                      meteo_obs_hourly, POINTS_RECONCILE, HumidityObservation,
                      ChatMessage, mood, uq_pppboost_user_date, threads>>

trade_accept_error(buyer_id, listing_id) ==
    IF listing_id \notin Ids(BetListing)
       \/ BetListing[listing_id].status # "OPEN" THEN "not_open"
    ELSE IF BetListing[listing_id].user_id = buyer_id THEN "seller"
    ELSE IF BetListing[listing_id].bet_id \notin Ids(PPPBet)
            \/ PPPBet[BetListing[listing_id].bet_id].locked_for_trade = 0
    THEN "unavailable"
    ELSE ""

trade_accept(buyer_id, listing_id) ==
    LET err == trade_accept_error(buyer_id, listing_id)
        bet_id == BetListing[listing_id].bet_id
    IN /\ IF err = ""
          THEN /\ PPPBet' = [PPPBet EXCEPT ![bet_id].user_id = buyer_id,
                                           ![bet_id].locked_for_trade = 0]
               /\ BetListing' = [BetListing EXCEPT
                                    ![listing_id].status = "SOLD"]
          ELSE UNCHANGED <<BetListing, PPPBet>>
       /\ last' = [op |-> "trade_accept", uid |-> buyer_id, err |-> err,
                   arg |-> listing_args(listing_id, None, None)]
       /\ UNCHANGED <<today, points, bonus_points, bolts, PPPBoost, WetBet,
                      meteo_obs_hourly, POINTS_RECONCILE, HumidityObservation,
                      ChatMessage, mood, uq_pppboost_user_date, threads>>

-----------------------------------------------------------------------------
(* Scenario "trade": two users place wagers on one slot, list them, cancel,
   buy and accept *)

TradeStakes == {None, 1 * Scale}
TradeAsks == {None, 1 * Scale}

InitTrade ==
    /\ InitDb
    /\ bolts = [u \in Users |-> 10]
    /\ POINTS_RECONCILE = FALSE
    /\ uq_pppboost_user_date = FALSE

PlaceTrade ==
    \E uid \in Users, choice \in Choices :
        /\ Len(PPPBet) < MaxTradeBets
              \/ ppp_bet_error(uid, 1, "", 1800, choice, 50 * Scale) # ""
        /\ ppp_bet(uid, 1, "", 1800, choice, 50 * Scale)

CreateListing ==
    \E uid \in Users, bet_id \in Ids(PPPBet), stake \in TradeStakes,
       ask_price \in TradeAsks :
        /\ Len(BetListing) < MaxListings
              \/ trade_create_listing_error(uid, bet_id, stake, ask_price) # ""
        /\ trade_create_listing(uid, bet_id, stake, ask_price)

CancelListing ==
    \E uid \in Users, listing_id \in Ids(BetListing) :
        trade_cancel_listing(uid, listing_id)

BuyListing ==
    \E uid \in Users, listing_id \in Ids(BetListing) :
        trade_buy_listing(uid, listing_id)

AcceptListing ==
    \E uid \in Users, listing_id \in Ids(BetListing) :
        trade_accept(uid, listing_id)

NextTrade ==
    \/ PlaceTrade
    \/ CreateListing
    \/ CancelListing
    \/ BuyListing
    \/ AcceptListing

SpecTrade == InitTrade /\ [][NextTrade]_vars

-----------------------------------------------------------------------------
(* Resolution of directional wagers *)

\* Europe/Paris is one hour ahead of UTC (winter time)
PARIS_UTC_OFFSET == 60

parse_local_iso_to_utc_iso(local) == local - PARIS_UTC_OFFSET

\* bet_date || 'T' || target_time, converted to UTC
utc_from(i) ==
    parse_local_iso_to_utc_iso(Ts(PPPBet[i].bet_date, PPPBet[i].target_time))

\* the CASE of the query: measured rain when present (negative counts 0),
\* else 0.1 mm when the weather code is a rain code, else 0
mm_eff(row) ==
    IF ~row.rain_null /\ row.rain_mm >= 0 THEN row.rain_mm
    ELSE IF ~row.rain_null THEN 0
    ELSE IF ~row.code_null /\ row.code >= 60 THEN 1
    ELSE 0

ObsAfter(station, from) ==
    {r \in meteo_obs_hourly : r.station_id = station /\ r.ts_utc >= from}

\* the station list tried in order: the scope itself, or lfpg_95 then
\* lfpg_75 for the empty scope
candidates(sid) == IF sid # "" THEN <<sid>> ELSE <<"lfpg_95", "lfpg_75">>

\* first row with ts_utc >= from of the first candidate that has one;
\* [found |-> FALSE] when no candidate has any
first_observation_after(sid, from) ==
    LET c == candidates(sid)
        hits == {k \in 1..Len(c) : ObsAfter(c[k], from) # {}}
    IN IF hits = {} THEN [found |-> FALSE, mm |-> 0]
       ELSE LET k == CHOOSE x \in hits : \A y \in hits : x <= y
                row == CHOOSE r \in ObsAfter(c[k], from) :
                          \A q \in ObsAfter(c[k], from) : r.ts_utc <= q.ts_utc
            IN [found |-> TRUE, mm |-> mm_eff(row)]

Verdict(outcome, choice) == IF outcome = choice THEN "WIN" ELSE "LOSE"

\* amt * (odd + boost_total); the scenarios stake whole points, so the
\* product is exact in hundredths
payout(i) ==
    (PPPBet[i].amount
        * (PPPBet[i].odds + boost_total(PPPBet[i].user_id, PPPBet[i].bet_date,
                                        PPPBet[i].station_id))) \div Scale

\* a selection that forgets the status filter
open_bets_any_status(scope) ==
    {i \in Ids(PPPBet) : /\ PPPBet[i].bet_date <= today
                         /\ PPPBet[i].station_id = scope}

\* WHERE status = 'ACTIVE' AND bet_date <= :today AND station_id = :sid
open_bets(scope) ==
    {i \in Ids(PPPBet) : /\ PPPBet[i].status = "ACTIVE"
                         /\ PPPBet[i].bet_date <= today
                         /\ PPPBet[i].station_id = scope}

\* the outcome a selected wager is resolved with: the preset one, else the
\* one of the first observation; "" while it has to wait
resolve_outcome(i, preset) ==
    IF preset \in Choices THEN preset
    ELSE LET obs == first_observation_after(PPPBet[i].station_id, utc_from(i))
         IN IF ~obs.found THEN ""
            ELSE IF obs.mm > 0 THEN "PLUIE" ELSE "PAS_PLUIE"

\* rows of resolve_ppp_open_bets that get a verdict in this run
resolved_now(scope) ==
    {i \in open_bets(scope) :
        resolve_outcome(i, PPPBet[i].preset_outcome) # ""}

resolved_row(i, preset, from_preset) ==
    LET o == resolve_outcome(i, preset)
    IN [PPPBet[i] EXCEPT !.verdict = Verdict(o, PPPBet[i].choice),
                         !.status = "RESOLVED",
                         !.outcome = IF from_preset THEN @ ELSE o]

\* the credit on a WIN of resolve_ppp_open_bets
credit_if_win(i) ==
    IF Verdict(resolve_outcome(i, PPPBet[i].preset_outcome),
               PPPBet[i].choice) = "WIN" /\ payout(i) > 0
    THEN payout(i) ELSE 0

resolve_ppp_open_bets_rows(scope) ==
    [i \in Ids(PPPBet) |->
        IF i \in resolved_now(scope)
        THEN resolved_row(i, PPPBet[i].preset_outcome,
                          PPPBet[i].preset_outcome \in Choices)
        ELSE PPPBet[i]]

resolve_ppp_open_bets_points(scope) ==
    [u \in Users |->
        points[u] + SumOver({i \in resolved_now(scope) : PPPBet[i].user_id = u},
                            [i \in Ids(PPPBet) |-> credit_if_win(i)])]

resolve_args(scope, n) == [scope |-> scope, updated |-> n]

\* the function run once on one scope, as the /ppp page does for each
\* scope it shows; one commit at the end
resolve_ppp_open_bets(scope) ==
    /\ PPPBet' = resolve_ppp_open_bets_rows(scope)
    /\ points' = resolve_ppp_open_bets_points(scope)
    /\ last' = [op |-> "resolve_ppp_open_bets", uid |-> 0, err |-> "",
                arg |-> resolve_args(scope, Cardinality(resolved_now(scope)))]
    /\ UNCHANGED <<today, bonus_points, bolts, PPPBoost, BetListing, WetBet,
                   meteo_obs_hourly, POINTS_RECONCILE, HumidityObservation,
                   ChatMessage, mood, uq_pppboost_user_date, threads>>

\* GET /tasks/ppp/resolve: rows ACTIVE without verdict whose target lies in
\* [now - 14 days, now); the outcome column plays the preset; no statement
\* writes user.points
MAX_BACK_DAYS == 14

pending_bets(now) ==
    {i \in Ids(PPPBet) : /\ PPPBet[i].status = "ACTIVE"
                         /\ PPPBet[i].verdict = ""
                         /\ ~(utc_from(i) >= now)
                         /\ ~(utc_from(i) < now - MAX_BACK_DAYS * 1440)}

pending_resolved_now(now) ==
    {i \in pending_bets(now) : resolve_outcome(i, PPPBet[i].outcome) # ""}

resolve_pending_ppp_bets(now) ==
    /\ PPPBet' = [i \in Ids(PPPBet) |->
                    IF i \in pending_resolved_now(now)
                    THEN resolved_row(i, PPPBet[i].outcome,
                                      PPPBet[i].outcome \in Choices)
                    ELSE PPPBet[i]]
    /\ last' = [op |-> "resolve_pending_ppp_bets", uid |-> 0, err |-> "",
                arg |-> resolve_args("",
                                     Cardinality(pending_resolved_now(now)))]
    /\ UNCHANGED <<today, points, bonus_points, bolts, PPPBoost, BetListing,
                   WetBet, meteo_obs_hourly, POINTS_RECONCILE,
                   HumidityObservation, ChatMessage, mood, uq_pppboost_user_date, threads>>

\* flask ppp_resolve: rows ACTIVE of a past day without verdict get verdict
\* and outcome from the hourly rain sum (threshold 0.2 mm); status stays
\* ACTIVE and no statement writes user.points.  rain[i] is the sum the
\* rain_obs table yields for row i.  No statement of the program creates
\* rain_obs: where the database lacks it the SELECT of the first selected
\* row raises and the command ends before its commit.
RAIN_THRESHOLD == 2

ppp_resolve_bets ==
    {i \in Ids(PPPBet) : /\ PPPBet[i].bet_date < today
                         /\ PPPBet[i].status = "ACTIVE"
                         /\ PPPBet[i].verdict = ""}

ppp_resolve(rain, rain_obs_exists) ==
    /\ PPPBet' = [i \in Ids(PPPBet) |->
                    IF i \in ppp_resolve_bets /\ rain_obs_exists
                    THEN LET observed_choice ==
                                 IF rain[i] >= RAIN_THRESHOLD THEN "PLUIE"
                                 ELSE "PAS_PLUIE"
                         IN [PPPBet[i] EXCEPT
                               !.verdict = Verdict(observed_choice,
                                                   PPPBet[i].choice),
                               !.outcome = observed_choice]
                    ELSE PPPBet[i]]
    /\ last' = [op |-> "ppp_resolve", uid |-> 0,
                err |-> IF ppp_resolve_bets # {} /\ ~rain_obs_exists
                        THEN "OperationalError" ELSE "",
                arg |-> resolve_args("", Cardinality(ppp_resolve_bets))]
    /\ UNCHANGED <<today, points, bonus_points, bolts, PPPBoost, BetListing,
                   WetBet, meteo_obs_hourly, POINTS_RECONCILE,
                   HumidityObservation, ChatMessage, mood, uq_pppboost_user_date, threads>>

-----------------------------------------------------------------------------
(* Environment: the calendar, the observation feed, the preset outcome *)

EnvStep(op) == [op |-> op, uid |-> 0, err |-> "", arg |-> <<>>]

\* midnight in Paris
Tick ==
    /\ today < MaxDay
    /\ today' = today + 1
    /\ last' = EnvStep("tick")
    /\ UNCHANGED <<points, bonus_points, bolts, PPPBet, PPPBoost, BetListing,
                   WetBet, meteo_obs_hourly, POINTS_RECONCILE,
                   HumidityObservation, ChatMessage, mood, uq_pppboost_user_date, threads>>

\* the feed stores an hourly row of a moment that is not in the future;
\* (station_id, ts_utc) is the primary key
AddObservation(row) ==
    /\ row.ts_utc < Ts(today + 1, 0)
    /\ \A r \in meteo_obs_hourly :
          ~(r.station_id = row.station_id /\ r.ts_utc = row.ts_utc)
    /\ meteo_obs_hourly' = meteo_obs_hourly \cup {row}
    /\ last' = EnvStep("observation")
    /\ UNCHANGED <<today, points, bonus_points, bolts, PPPBet, PPPBoost,
                   BetListing, WetBet, POINTS_RECONCILE, HumidityObservation,
                   ChatMessage, mood, uq_pppboost_user_date, threads>>

\* an operator writes ppp_bet.preset_outcome of a wager still ACTIVE
SetPresetOutcome(i, o) ==
    /\ PPPBet[i].status = "ACTIVE"
    /\ PPPBet[i].preset_outcome = ""
    /\ PPPBet' = [PPPBet EXCEPT ![i].preset_outcome = o]
    /\ last' = EnvStep("preset")
    /\ UNCHANGED <<today, points, bonus_points, bolts, PPPBoost, BetListing,
                   WetBet, meteo_obs_hourly, POINTS_RECONCILE,
                   HumidityObservation, ChatMessage, mood, uq_pppboost_user_date, threads>>

-----------------------------------------------------------------------------
(* Scenario "resolve": one user stakes on tomorrow 18:00, boosts, the day
   comes, the 17:00 UTC observation arrives and every resolver runs *)

ResolveStake == 250 * Scale
ObsRows ==
    {[station_id |-> "lfpg_75", ts_utc |-> Ts(1, 1700), rain_null |-> v[1],
      rain_mm |-> v[2], code_null |-> v[3], code |-> v[4]] :
        v \in {<<FALSE, 0, TRUE, 0>>, <<FALSE, 5, TRUE, 0>>,
               <<TRUE, 0, FALSE, 61>>}}
NowTimes == {1600, 2300}
RainValues == {0, 5}

InitResolve ==
    /\ InitDb
    /\ bolts = [u \in Users |-> 1]
    /\ POINTS_RECONCILE = FALSE
    /\ uq_pppboost_user_date = FALSE

\* the budget allows two such stakes and the window closes at midnight
PlaceResolve ==
    \E choice \in Choices : ppp_bet(1, 1, "", 1800, choice, ResolveStake)

BoostResolve == ppp_boost(1, TRUE, 1, "", 10 * Scale)

Observe == \E row \in ObsRows : AddObservation(row)

Preset == \E i \in Ids(PPPBet), o \in Choices : SetPresetOutcome(i, o)

ResolveOpen == resolve_ppp_open_bets("")

ResolvePending ==
    \E hhmm \in NowTimes : resolve_pending_ppp_bets(Ts(today, hhmm))

ResolveCommand ==
    \E rain \in [Ids(PPPBet) -> RainValues], rain_obs_exists \in BOOLEAN :
        ppp_resolve(rain, rain_obs_exists)

NextResolve ==
    \/ PlaceResolve
    \/ BoostResolve
    \/ Tick
    \/ Observe
    \/ Preset
    \/ ResolveOpen
    \/ ResolvePending
    \/ ResolveCommand

SpecResolve == InitResolve /\ [][NextResolve]_vars

-----------------------------------------------------------------------------
(* POST /ppp/bet served by two workers: the checks read the database, the
   INSERT and the relative UPDATE of user.points come later in a
   transaction of their own, and nothing locks the rows in between *)

\* the checks of the request, evaluated on the state the worker reads
ppp_bet_begin(t, uid, target, sid, hhmm, choice, amount) ==
    /\ threads[t].pc = "idle"
    /\ threads' = [threads EXCEPT ![t] =
                      [pc |-> "checked", uid |-> uid,
                       err |-> ppp_bet_error(uid, target, sid, hhmm, choice,
                                             amount),
                       odds |-> final_odds(target, choice),
                       arg |-> bet_args(target, sid, hhmm, choice, amount)]]
    /\ UNCHANGED <<today, points, bonus_points, bolts, PPPBet, PPPBoost,
                   BetListing, WetBet, meteo_obs_hourly, POINTS_RECONCILE,
                   HumidityObservation, ChatMessage, mood, uq_pppboost_user_date, last>>

\* the rest of the request: the error response, or the insert, the debit
\* and the commit
ppp_bet_end(t) ==
    /\ threads[t].pc = "checked"
    /\ LET r == threads[t]
       IN /\ IF r.err = ""
             THEN ppp_bet_commit(r.uid, r.arg.target, r.arg.sid, r.arg.hhmm,
                                 r.arg.choice, r.arg.amount, r.odds)
             ELSE UNCHANGED <<PPPBet, points>>
          /\ last' = [op |-> "ppp_bet", uid |-> r.uid, err |-> r.err,
                      arg |-> r.arg]
    /\ threads' = [threads EXCEPT ![t] = NoThread]
    /\ UNCHANGED <<today, bonus_points, bolts, PPPBoost, BetListing, WetBet,
                   meteo_obs_hourly, POINTS_RECONCILE, HumidityObservation,
                   ChatMessage, mood, uq_pppboost_user_date>>

-----------------------------------------------------------------------------
(* Scenario "race": one user sends placements through two workers *)

RaceAmounts == {100 * Scale, 300 * Scale}

BeginBet ==
    \E t \in Threads, choice \in Choices, amount \in RaceAmounts :
        ppp_bet_begin(t, 1, 1, "", 1800, choice, amount)

EndBet == \E t \in Threads : ppp_bet_end(t)

NextRace == BeginBet \/ EndBet

SpecRace == InitSlots /\ [][NextRace]_vars

-----------------------------------------------------------------------------
(* resolve_ppp_open_bets run by two executions: the SELECT reads the ACTIVE
   rows outside any transaction; the loop then issues UPDATE ppp_bet ...
   WHERE id = :bid and the relative UPDATE of user.points for every row it
   selected, and commits once *)

\* the rows of the SELECT with the columns the loop keeps from it
resolve_select(scope) ==
    [i \in open_bets(scope) |->
        [user_id |-> PPPBet[i].user_id, choice |-> PPPBet[i].choice,
         preset_outcome |-> PPPBet[i].preset_outcome]]

resolve_ppp_open_bets_begin(t, scope) ==
    /\ threads[t].pc = "idle"
    /\ threads' = [threads EXCEPT ![t] =
                      [pc |-> "selected", scope |-> scope,
                       rows |-> resolve_select(scope)]]
    /\ UNCHANGED <<today, points, bonus_points, bolts, PPPBet, PPPBoost,
                   BetListing, WetBet, meteo_obs_hourly, POINTS_RECONCILE,
                   HumidityObservation, ChatMessage, mood, uq_pppboost_user_date, last>>

\* the selected rows that get their UPDATE: preset outcome, or an
\* observation present when the loop runs
loop_resolved(rows) ==
    {i \in DOMAIN rows : resolve_outcome(i, rows[i].preset_outcome) # ""}

\* UPDATE ppp_bet SET verdict, status = 'RESOLVED' ... WHERE id = :bid
loop_update(rows, i) ==
    LET o == resolve_outcome(i, rows[i].preset_outcome)
    IN [PPPBet[i] EXCEPT !.verdict = Verdict(o, rows[i].choice),
                         !.status = "RESOLVED",
                         !.outcome = IF rows[i].preset_outcome \in Choices
                                     THEN @ ELSE o]

\* amt * (odd + boost_total): amount and odds re-read by id, the boosts of
\* the selected user_id
loop_payout(rows, i) ==
    (PPPBet[i].amount
        * (PPPBet[i].odds + boost_total(rows[i].user_id, PPPBet[i].bet_date,
                                        PPPBet[i].station_id))) \div Scale

loop_credit(rows, i) ==
    IF Verdict(resolve_outcome(i, rows[i].preset_outcome), rows[i].choice)
          = "WIN" /\ loop_payout(rows, i) > 0
    THEN loop_payout(rows, i) ELSE 0

resolve_ppp_open_bets_end(t) ==
    /\ threads[t].pc = "selected"
    /\ LET rows == threads[t].rows
           done == loop_resolved(rows)
       IN /\ PPPBet' = [i \in Ids(PPPBet) |->
                           IF i \in done THEN loop_update(rows, i)
                           ELSE PPPBet[i]]
          /\ points' = [u \in Users |->
                           points[u]
                             + SumOver({i \in done : rows[i].user_id = u},
                                       [i \in done |-> loop_credit(rows, i)])]
          /\ last' = [op |-> "resolve_ppp_open_bets", uid |-> 0, err |-> "",
                      arg |-> resolve_args(threads[t].scope,
                                           Cardinality(done))]
    /\ threads' = [threads EXCEPT ![t] = NoThread]
    /\ UNCHANGED <<today, bonus_points, bolts, PPPBoost, BetListing, WetBet,
                   meteo_obs_hourly, POINTS_RECONCILE, HumidityObservation,
                   ChatMessage, mood, uq_pppboost_user_date>>

-----------------------------------------------------------------------------
(* Scenario "resolve race": the wagers of the scenario "resolve", resolved
   by two executions of resolve_ppp_open_bets that may overlap *)

ResolveEnd == \E t \in Threads : resolve_ppp_open_bets_end(t)

NextResolveRace ==
    \/ PlaceResolve
    \/ Tick
    \/ Observe
    \/ Preset
    \/ \E t \in Threads : resolve_ppp_open_bets_begin(t, "")
    \/ ResolveEnd

SpecResolveRace == InitResolve /\ [][NextResolveRace]_vars

-----------------------------------------------------------------------------
(* POST /ppp/boost served by two workers: the SELECT of the current total
   and the clamp of the increment come first; the guarded UPDATE of bolts,
   the upsert and the commit form the write transaction that follows *)

\* steps 1-3: read cur_total, test the cap, clamp the increment
ppp_boost_begin(t, uid, date_ok, d, sid, value) ==
    /\ threads[t].pc = "idle"
    /\ threads' = [threads EXCEPT ![t] =
          [pc |-> "clamped", uid |-> uid,
           err |-> IF inc_req(value) <= 0 THEN "bad_value"
                   ELSE IF ~date_ok THEN "bad_date"
                   ELSE IF cap_reached(boost_total(uid, d, sid))
                        THEN "cap_reached"
                   ELSE "",
           inc |-> Min(inc_req(value), cap_value - boost_total(uid, d, sid)),
           arg |-> boost_args(date_ok, d, sid, value)]]
    /\ UNCHANGED <<today, points, bonus_points, bolts, PPPBet, PPPBoost,
                   BetListing, WetBet, meteo_obs_hourly, POINTS_RECONCILE,
                   HumidityObservation, ChatMessage, mood, uq_pppboost_user_date, last>>

\* steps 4-7: the error response, or the bolt, the upsert of the clamped
\* increment and the commit
ppp_boost_end(t) ==
    /\ threads[t].pc = "clamped"
    /\ LET r == threads[t]
           err == IF r.err # "" THEN r.err
                  ELSE IF ~upd_bolts(r.uid) THEN "no_bolts"
                  ELSE IF upsert_conflict(r.uid, r.arg.target, r.arg.sid)
                       THEN "conflict"
                  ELSE ""
       IN /\ IF err = ""
             THEN /\ bolts' = [bolts EXCEPT ![r.uid] = @ - 1]
                  /\ PPPBoost' = upsert(r.uid, r.arg.target, r.arg.sid, r.inc)
             ELSE UNCHANGED <<bolts, PPPBoost>>
          /\ last' = [op |-> "ppp_boost", uid |-> r.uid, err |-> err,
                      arg |-> r.arg]
    /\ threads' = [threads EXCEPT ![t] = NoThread]
    /\ UNCHANGED <<today, points, bonus_points, PPPBet, BetListing, WetBet,
                   meteo_obs_hourly, POINTS_RECONCILE, HumidityObservation,
                   ChatMessage, mood, uq_pppboost_user_date>>

-----------------------------------------------------------------------------
(* Scenario "boost race": one user buys boosts for one (date, scope)
   through two workers *)

NextBoostRace ==
    \/ \E t \in Threads, date_ok \in BOOLEAN, value \in BoostValues :
          ppp_boost_begin(t, 1, date_ok, 1, "", value)
    \/ \E t \in Threads : ppp_boost_end(t)

SpecBoostRace == InitBoost /\ [][NextBoostRace]_vars

-----------------------------------------------------------------------------
(* POST /api/chat/messages: a message "toyou<gift>N" credits N points to
   the recipient, "tome<gift>N" to the sender.  The handler loads the
   recipient row (User.query.get), then credits, inserts the message and
   commits *)

gift_args(to_id, cmd, amt) == [to |-> to_id, cmd |-> cmd, amt |-> amt]

\* the checks and the load of the recipient
chat_send_begin(t, frm_id, to_id, cmd, amt) ==
    /\ threads[t].pc = "idle"
    /\ threads' = [threads EXCEPT ![t] =
          [pc |-> "loaded", uid |-> frm_id,
           err |-> IF to_id = frm_id /\ cmd # "tome" THEN "bad_recipient"
                   ELSE "",
           other_points |-> points[to_id],
           arg |-> gift_args(to_id, cmd, amt)]]
    /\ UNCHANGED <<today, points, bonus_points, bolts, PPPBet, PPPBoost,
                   BetListing, WetBet, meteo_obs_hourly, POINTS_RECONCILE,
                   HumidityObservation, ChatMessage, mood, uq_pppboost_user_date, last>>

\* a credit that writes back the balance loaded with the recipient row
credit_points_write_back(r) ==
    LET user_id == IF r.arg.cmd = "toyou" THEN r.arg.to ELSE r.uid
    IN [points EXCEPT ![user_id] = r.other_points + r.arg.amt]

\* credit_points_exact of the request r in flight:
\* UPDATE user SET points = COALESCE(points, 0) + :amount WHERE id = :uid
credit_points_exact(r) ==
    LET user_id == IF r.arg.cmd = "toyou" THEN r.arg.to ELSE r.uid
    IN [points EXCEPT ![user_id] = @ + r.arg.amt]

\* parse_gift, the credit, the insert of the message with its masked body
\* and the commit
chat_send_end(t) ==
    /\ threads[t].pc = "loaded"
    /\ LET r == threads[t]
           gift == r.arg.cmd \in {"toyou", "tome"} /\ r.arg.amt > 0
       IN /\ IF r.err = ""
             THEN /\ points' = IF gift THEN credit_points_exact(r) ELSE points
                  /\ ChatMessage' =
                        Append(ChatMessage,
                               [from_user_id |-> r.uid, to_user_id |-> r.arg.to,
                                gift |-> IF gift THEN r.arg.amt ELSE 0])
             ELSE UNCHANGED <<points, ChatMessage>>
          /\ last' = [op |-> "chat_send", uid |-> r.uid, err |-> r.err,
                      arg |-> r.arg]
    /\ threads' = [threads EXCEPT ![t] = NoThread]
    /\ UNCHANGED <<today, bonus_points, bolts, PPPBet, PPPBoost, BetListing,
                   WetBet, meteo_obs_hourly, POINTS_RECONCILE,
                   HumidityObservation, mood, uq_pppboost_user_date>>

-----------------------------------------------------------------------------
(* Scenario "wallet": user 1 places wagers through either worker, one
   execution of the resolver pays the won ones, and user 2 sends gifts to
   user 1; every request may overlap the others *)

MaxMessages == 1
GiftAmount == 7 * Scale

\* the budget allows one stake of 300, or two when the checks overlap;
\* the resolver runs on worker 1
NextWallet ==
    \/ \E t \in Threads :
          ppp_bet_begin(t, 1, 1, "", 1800, "PLUIE", 300 * Scale)
    \/ EndBet
    \/ /\ Len(ChatMessage) < MaxMessages
       /\ \E t \in Threads, amt \in {0, GiftAmount} :
             chat_send_begin(t, 2, 1, "toyou", amt)
    \/ \E t \in Threads : chat_send_end(t)
    \/ resolve_ppp_open_bets_begin(1, "")
    \/ ResolveEnd
    \/ Tick
    \/ Observe

SpecWallet == InitResolve /\ [][NextWallet]_vars

-----------------------------------------------------------------------------
(* Hourly humidity wagers: POST /wet, the humidity feed and
   resolve_due_wet_bets.  slot_dt is a naive Paris time in minutes,
   obs_time is UTC in minutes, humidity is in tenths of a percent *)

\* the checks of POST /wet in their order; "" when the wager is stored
wet_error(uid, slot_dt, target_pct, amount, now) ==
    IF target_pct < 0 \/ target_pct > 100 \/ amount <= 0 THEN "bad_values"
    ELSE IF slot_dt < (now \div 60) * 60 + 120 THEN "cutoff"
    ELSE IF amount > remaining_points(uid) THEN "budget"
    ELSE IF \E i \in Ids(WetBet) : /\ WetBet[i].user_id = uid
                                   /\ WetBet[i].slot_dt = slot_dt
                                   /\ WetBet[i].status = "ACTIVE"
                                   /\ WetBet[i].target_pct # target_pct
         THEN "target_change"
    ELSE IF slot_dt <= now THEN "past"
    ELSE ""

\* max(1.2, min(3.0, 1.2 + 0.02 * hours_ahead)), in hundredths
wet_odds(slot_dt, now) ==
    Max(120, Min(300, 120 + (2 * Max(0, slot_dt - now)) \div 60))

\* POST /wet: the wager is stored ACTIVE; no statement debits user.points
wet(uid, slot_dt, target_pct, amount, now) ==
    LET err == wet_error(uid, slot_dt, target_pct, amount, now)
    IN /\ WetBet' =
             IF err = ""
             THEN Append(WetBet,
                         [user_id |-> uid, slot_dt |-> slot_dt,
                          target_pct |-> target_pct, amount |-> amount,
                          odds |-> wet_odds(slot_dt, now), status |-> "ACTIVE",
                          observed_pct |-> None, outcome |-> "", payout |-> 0])
             ELSE WetBet
       /\ last' = [op |-> "wet", uid |-> uid, err |-> err,
                   arg |-> [slot |-> slot_dt, target |-> target_pct,
                            amount |-> amount]]
       /\ UNCHANGED <<today, points, bonus_points, bolts, PPPBet, PPPBoost,
                      BetListing, meteo_obs_hourly, POINTS_RECONCILE,
                      HumidityObservation, ChatMessage, mood,
                      uq_pppboost_user_date, threads>>

\* the feed inserts a reading unless (station_id, obs_time) is present
ingest_infoclimat_cdg(station_id, obs_time, hum) ==
    /\ ~\E r \in HumidityObservation :
           r.station_id = station_id /\ r.obs_time = obs_time
    /\ HumidityObservation' = HumidityObservation \cup
          {[station_id |-> station_id, obs_time |-> obs_time,
            humidity |-> hum]}
    /\ last' = EnvStep("humidity")
    /\ UNCHANGED <<today, points, bonus_points, bolts, PPPBet, PPPBoost,
                   BetListing, WetBet, meteo_obs_hourly, POINTS_RECONCILE,
                   ChatMessage, mood, uq_pppboost_user_date, threads>>

\* first reading of the station in [slot, slot + 59 min] (UTC), else the
\* last one at or before the end of that hour; None when there is none
get_observed_humidity_paris(slot_dt, station_id) ==
    LET start_utc == slot_dt - PARIS_UTC_OFFSET
        end_utc == start_utc + 59
        win == {r \in HumidityObservation :
                   /\ r.station_id = station_id
                   /\ r.obs_time >= start_utc /\ r.obs_time <= end_utc}
        fb == {r \in HumidityObservation :
                   r.station_id = station_id /\ r.obs_time <= end_utc}
    IN IF win # {}
       THEN (CHOOSE r \in win : \A q \in win : r.obs_time <= q.obs_time).humidity
       ELSE IF fb # {}
       THEN (CHOOSE r \in fb : \A q \in fb : r.obs_time >= q.obs_time).humidity
       ELSE None

\* int(round(observed)): to the nearest integer, a half to the even one
round_pct(h) ==
    LET q == h \div 10
        r == h % 10
    IN IF r > 5 \/ (r = 5 /\ q % 2 = 1) THEN q + 1 ELSE q

\* a decision that takes a difference of 4 for a win
wet_decision_wide(obs_pct, target) ==
    IF obs_pct = target THEN "EXACT"
    ELSE IF Abs(obs_pct - target) <= 4 THEN "WIN"
    ELSE "LOSE"

wet_decision(obs_pct, target) ==
    IF obs_pct = target THEN "EXACT"
    ELSE IF Abs(obs_pct - target) <= 3 THEN "WIN"
    ELSE "LOSE"

\* the ACTIVE wagers of the user whose slot is at or before the current
\* hour get observed_pct, outcome, payout and status RESOLVED when a
\* reading is found.  The credit of a positive payout calls credit_points,
\* a name the program does not define: the NameError is caught per wager
\* after its fields are set, so the commit stores the resolution and
\* user.points stays as it is.
resolve_due_wet_bets(uid, now) ==
    LET station_id == "cdg_07157"
        due == {i \in Ids(WetBet) :
                   /\ WetBet[i].user_id = uid
                   /\ WetBet[i].status = "ACTIVE"
                   /\ WetBet[i].slot_dt <= (now \div 60) * 60
                   /\ get_observed_humidity_paris(WetBet[i].slot_dt,
                                                  station_id) # None}
        resolved(bet) ==
            LET obs_pct ==
                    round_pct(get_observed_humidity_paris(bet.slot_dt,
                                                          station_id))
                outcome == wet_decision(obs_pct, bet.target_pct)
            IN [bet EXCEPT
                  !.observed_pct = obs_pct,
                  !.outcome = outcome,
                  !.payout = IF outcome = "EXACT"
                             THEN (bet.amount * bet.odds * 2) \div Scale
                             ELSE IF outcome = "WIN"
                             THEN (bet.amount * bet.odds) \div Scale
                             ELSE 0,
                  !.status = "RESOLVED"]
    IN /\ WetBet' = [i \in Ids(WetBet) |->
                        IF i \in due THEN resolved(WetBet[i]) ELSE WetBet[i]]
       /\ last' = [op |-> "resolve_due_wet_bets", uid |-> uid, err |-> "",
                   arg |-> [now |-> now]]
       /\ UNCHANGED <<today, points, bonus_points, bolts, PPPBet, PPPBoost,
                      BetListing, meteo_obs_hourly, POINTS_RECONCILE,
                      HumidityObservation, ChatMessage, mood,
                      uq_pppboost_user_date, threads>>

-----------------------------------------------------------------------------
(* Scenario "wet": at 10:00 of each day user 1 stakes on 50 % for 09:00 of
   the next day and opens the page that resolves the due wagers; the feed
   delivers the 08:30 UTC reading of the day *)

MaxWetBets == 2
HumidityValues == {500, 525, 530, 535}

InitWet ==
    /\ InitDb
    /\ bolts = [u \in Users |-> 0]
    /\ POINTS_RECONCILE \in BOOLEAN
    /\ uq_pppboost_user_date = FALSE

NextWet ==
    \/ \E target_pct \in {50, 101} :
          /\ \/ Len(WetBet) < MaxWetBets
             \/ wet_error(1, Ts(today + 1, 900), target_pct, 300 * Scale,
                          Ts(today, 1000)) # ""
          /\ wet(1, Ts(today + 1, 900), target_pct, 300 * Scale,
                 Ts(today, 1000))
    \/ \E hum \in HumidityValues :
          ingest_infoclimat_cdg("cdg_07157", Ts(today, 830), hum)
    \/ resolve_due_wet_bets(1, Ts(today, 1000))
    \/ Tick

SpecWet == InitWet /\ [][NextWet]_vars

-----------------------------------------------------------------------------
(* Scenario "balance": user 1 stakes 0.50 or 300 points on the humidity of
   tomorrow 09:00, which no statement debits from user.points, the 50 %
   reading arrives, the wagers are resolved, and the balance is read with
   the SELECT of user.points succeeding or failing *)

NextBalance ==
    \/ \E amount \in {Scale \div 2, 300 * Scale} :
          /\ \/ Len(WetBet) < MaxWetBets
             \/ wet_error(1, Ts(today + 1, 900), 50, amount,
                          Ts(today, 1000)) # ""
          /\ wet(1, Ts(today + 1, 900), 50, amount, Ts(today, 1000))
    \/ \E readable \in BOOLEAN : user_solde(1, readable)
    \/ ingest_infoclimat_cdg("cdg_07157", Ts(today, 830), 500)
    \/ resolve_due_wet_bets(1, Ts(today, 1000))
    \/ Tick

SpecBalance == InitWet /\ [][NextBalance]_vars

-----------------------------------------------------------------------------
(* Mood market: the operator stages the values of a day (POST /admin), the
   10:00 job publishes them, the 10:05 job settles the positions that have
   matured.  Values are integers; principal, settled points and the free
   balances are in millionths of a point (round(x, 6)) *)

\* POST /admin: insert or overwrite the staged row of the_date
admin(the_date, pv, mv) ==
    /\ PendingMood' = {r \in PendingMood : r.the_date # the_date} \cup
          {[the_date |-> the_date, pierre_value |-> pv, marie_value |-> mv]}
    /\ last' = [op |-> "admin", uid |-> 0, err |-> "",
                arg |-> <<the_date, pv, mv>>]
    /\ UNCHANGED <<today, points, bonus_points, bolts, PPPBet, PPPBoost,
                   BetListing, WetBet, meteo_obs_hourly, POINTS_RECONCILE,
                   HumidityObservation, ChatMessage, Position, DailyMood,
                   bal_pierre, bal_marie, uq_pppboost_user_date, threads>>

\* the staged row of today, if any, becomes (or overwrites) the published
\* row of today
publish_today_if_pending ==
    /\ DailyMood' =
          IF \E p \in PendingMood : p.the_date = today
          THEN {r \in DailyMood : r.the_date # today} \cup
               {p \in PendingMood : p.the_date = today}
          ELSE DailyMood
    /\ last' = [op |-> "publish_today_if_pending", uid |-> 0, err |-> "",
                arg |-> <<>>]
    /\ UNCHANGED <<today, points, bonus_points, bolts, PPPBet, PPPBoost,
                   BetListing, WetBet, meteo_obs_hourly, POINTS_RECONCILE,
                   HumidityObservation, ChatMessage, Position, PendingMood,
                   bal_pierre, bal_marie, uq_pppboost_user_date, threads>>

\* value of the asset in the last row published on or before d; None when
\* there is none
get_value_for_fallback(d, asset) ==
    LET rows == {r \in DailyMood : r.the_date <= d}
    IN IF rows = {} THEN None
       ELSE LET row == CHOOSE r \in rows : \A q \in rows : r.the_date >= q.the_date
            IN IF asset = "PIERRE" THEN row.pierre_value ELSE row.marie_value

\* a selection that forgets the status filter
to_settle_any_status ==
    {i \in Ids(Position) : Position[i].maturity_date <= today}

\* Position.status == 'ACTIVE', Position.maturity_date <= d
to_settle ==
    {i \in Ids(Position) : /\ Position[i].status = "ACTIVE"
                           /\ Position[i].maturity_date <= today}

\* round(principal_points * (end_val / start_value), 6) on millionths:
\* the nearest integer, a half to the even; multiplier 0.0 when
\* start_value is falsy
final_points(i) ==
    LET n == Position[i].principal_points
                * get_value_for_fallback(Position[i].maturity_date,
                                         Position[i].asset)
        d == Position[i].start_value
    IN IF d = 0 THEN 0
       ELSE IF 2 * (n % d) > d \/ (2 * (n % d) = d /\ (n \div d) % 2 = 1)
       THEN n \div d + 1
       ELSE n \div d

settle_maturities ==
    LET runs == to_settle # {} /\ \E r \in DailyMood : r.the_date = today
        done == IF runs
                THEN {i \in to_settle :
                         get_value_for_fallback(Position[i].maturity_date,
                                                Position[i].asset) # None}
                ELSE {}
        credit(u, asset) ==
            SumOver({i \in done : /\ Position[i].user_id = u
                                  /\ Position[i].asset = asset},
                    [i \in done |-> final_points(i)])
    IN /\ Position' = [i \in Ids(Position) |->
                          IF i \in done
                          THEN [Position[i] EXCEPT
                                  !.status = "SETTLED",
                                  !.settled_points = final_points(i)]
                          ELSE Position[i]]
       /\ bal_pierre' = [u \in Users |-> bal_pierre[u] + credit(u, "PIERRE")]
       /\ bal_marie' = [u \in Users |-> bal_marie[u] + credit(u, "MARIE")]
       /\ last' = [op |-> "settle_maturities", uid |-> 0, err |-> "",
                   arg |-> <<>>]
       /\ UNCHANGED <<today, points, bonus_points, bolts, PPPBet, PPPBoost,
                      BetListing, WetBet, meteo_obs_hourly, POINTS_RECONCILE,
                      HumidityObservation, ChatMessage, DailyMood, PendingMood,
                      uq_pppboost_user_date, threads>>

-----------------------------------------------------------------------------
(* Scenario "settle": user 1 holds a PIERRE position of 0.4 point and a
   MARIE position of 0.333333 point, taken 21 days ago at the values
   published that day and maturing today or tomorrow *)

InitSettle ==
    /\ today = 0
    /\ points = [u \in Users |-> BUDGET_INITIAL]
    /\ bonus_points = [u \in Users |-> 0]
    /\ bolts = [u \in Users |-> 0]
    /\ PPPBet = <<>> /\ PPPBoost = <<>> /\ BetListing = <<>> /\ WetBet = <<>>
    /\ meteo_obs_hourly = {} /\ HumidityObservation = {} /\ ChatMessage = <<>>
    /\ POINTS_RECONCILE = FALSE
    /\ uq_pppboost_user_date = FALSE
    /\ PendingMood = {}
    /\ bal_pierre = [u \in Users |-> 0]
    /\ bal_marie = [u \in Users |-> 0]
    /\ threads = [t \in Threads |-> NoThread]
    /\ last = NoRequest
    /\ \E pv \in {0, 100}, mv \in {0, 100}, m1 \in 0..1, m2 \in 0..1 :
          /\ DailyMood = {[the_date |-> 0 - 21, pierre_value |-> pv,
                           marie_value |-> mv]}
          /\ Position =
               <<[user_id |-> 1, asset |-> "PIERRE",
                  principal_points |-> 400000, start_value |-> pv,
                  maturity_date |-> m1, status |-> "ACTIVE",
                  settled_points |-> None],
                 [user_id |-> 1, asset |-> "MARIE",
                  principal_points |-> 333333, start_value |-> mv,
                  maturity_date |-> m2, status |-> "ACTIVE",
                  settled_points |-> None]>>

NextSettle ==
    \/ \E v \in {<<120, 100>>, <<0, 119>>} : admin(today, v[1], v[2])
    \/ publish_today_if_pending
    \/ settle_maturities
    \/ Tick

SpecSettle == InitSettle /\ [][NextSettle]_vars

-----------------------------------------------------------------------------
(* Scenario "market": each user stakes 300 on rain for tomorrow 18:00 (the
   budget allows one such wager), lists a wager at its stake, cancels,
   buys or accepts; the day comes, the observation arrives and the
   resolver runs while listings are still open *)

NextMarket ==
    \/ \E uid \in Users : ppp_bet(uid, 1, "", 1800, "PLUIE", 300 * Scale)
    \/ \E uid \in Users, bet_id \in Ids(PPPBet) :
          /\ \/ Len(BetListing) < MaxListings
             \/ trade_create_listing_error(uid, bet_id, None, None) # ""
          /\ trade_create_listing(uid, bet_id, None, None)
    \/ CancelListing
    \/ BuyListing
    \/ AcceptListing
    \/ Tick
    \/ Observe
    \/ ResolveOpen

SpecMarket == InitTrade /\ [][NextMarket]_vars

-----------------------------------------------------------------------------
(* Scenario "late": a wager on day 1 at 18:00 is still ACTIVE when more
   than 14 days have passed; the observation of day 1 is stored only then
   and every resolver runs *)

\* n midnights pass without a request
Elapse(n) ==
    /\ today <= MaxDay
    /\ today' = today + n
    /\ last' = EnvStep("tick")
    /\ UNCHANGED <<points, bonus_points, bolts, PPPBet, PPPBoost, BetListing,
                   WetBet, meteo_obs_hourly, POINTS_RECONCILE,
                   HumidityObservation, ChatMessage, mood,
                   uq_pppboost_user_date, threads>>

NextLate ==
    \/ /\ today = 0
       /\ PlaceResolve
    \/ Tick
    \/ Elapse(MAX_BACK_DAYS + 1)
    \/ Observe
    \/ ResolveOpen
    \/ ResolvePending
    \/ ResolveCommand

SpecLate == InitResolve /\ [][NextLate]_vars

-----------------------------------------------------------------------------
(* Scenario "placement": on day 0 user 1 stakes 50 points once on day 1
   and once on day 5, then come the operations that follow a placement: a boost, a listing, its cancellation
   or purchase, the passing of days, the observation and the resolution *)

NextPlacement ==
    \/ \E target \in {1, 5} :
          /\ today = 0
          /\ \A i \in Ids(PPPBet) : PPPBet[i].bet_date # target
          /\ ppp_bet(1, target, "", 1800, "PLUIE", 50 * Scale)
    \/ BoostResolve
    \/ \E bet_id \in Ids(PPPBet) :
          /\ \/ Len(BetListing) < MaxListings
             \/ trade_create_listing_error(1, bet_id, None, None) # ""
          /\ trade_create_listing(1, bet_id, None, None)
    \/ \E listing_id \in Ids(BetListing) : trade_cancel_listing(1, listing_id)
    \/ \E listing_id \in Ids(BetListing) : trade_buy_listing(2, listing_id)
    \/ Tick
    \/ Observe
    \/ ResolveOpen

SpecPlacement == InitResolve /\ [][NextPlacement]_vars

-----------------------------------------------------------------------------
(* Combined odds with a historical sample and a forecast signal *)

\* round(num / den, 2) for a value num / den counted in hundredths: the
\* nearest hundredth. The code rounds a binary float, so a value that lies
\* exactly between two hundredths goes to either neighbour (1.165 gives
\* 1.17, 1.315 gives 1.31): both are possible results
nearest(num, den) ==
    {q \in {num \div den, (num \div den) + 1} : 2 * Abs(q * den - num) <= den}

\* _odds_from_prob for p = rainy / n: 1 / max(p, eps) held in 1.0 .. 3.0
odds_from_prob(rainy, n) ==
    IF rainy = 0 THEN {3 * Scale}
    ELSE {Max(1 * Scale, Min(3 * Scale, q)) : q \in nearest(Scale * n, rainy)}

\* the weight of the forecast odds, out of 2 + k_fore
forecast_weight_flat(offset) == 1

forecast_weight(offset) ==
    CASE offset = 1 -> 3
      [] offset = 2 -> 2
      [] OTHER -> 1

\* ppp_combined_odds for a station whose archive holds n days of the target's
\* MM-DD, rainy of them at or above the threshold (n = 0: no sample or no
\* coordinates, p is None), and whose snapshot gives the signal ("" for
\* None). The set of the results the roundings allow; 0 stands for an
\* absent key
ppp_combined_odds_station(target, rainy, n, signal) ==
    LET v == ppp_validate_can_bet(target, today)
        offset == target - today
        k_fore == IF offset \in {1, 2, 3} /\ signal # ""
                  THEN forecast_weight(offset) ELSE 0
        forecast_pluie == IF signal = "PLUIE" THEN 1 * Scale ELSE 2 * Scale
        forecast_pas == IF signal = "PLUIE" THEN 2 * Scale ELSE 1 * Scale
    IN IF ~v.ok \/ v.odds = 0
       THEN {[error |-> v.msg, odd_hist_pluie |-> 0, odd_hist_pas_pluie |-> 0,
              combined_pluie |-> 0, combined_pas_pluie |-> 0]}
       ELSE IF n = 0
       THEN {[error |-> "", odd_hist_pluie |-> 0, odd_hist_pas_pluie |-> 0,
              combined_pluie |-> v.odds, combined_pas_pluie |-> v.odds]}
       ELSE UNION {
              {[error |-> "", odd_hist_pluie |-> hp, odd_hist_pas_pluie |-> hd,
                combined_pluie |-> cp, combined_pas_pluie |-> cd] :
                 cp \in nearest(hp + v.odds + k_fore * forecast_pluie,
                                2 + k_fore),
                 cd \in nearest(hd + v.odds + k_fore * forecast_pas,
                                2 + k_fore)} :
              hp \in odds_from_prob(rainy, n),
              hd \in odds_from_prob(n - rainy, n)}

\* GET /api/ppp/odds: the archive and the snapshot are inputs of the request
api_ppp_odds(target, rainy, n, signal) ==
    /\ \E res \in ppp_combined_odds_station(target, rainy, n, signal) :
          last' = [op |-> "api_ppp_odds", uid |-> 0, err |-> res.error,
                   arg |-> [target |-> target, rainy |-> rainy, n |-> n,
                            signal |-> signal, res |-> res]]
    /\ UNCHANGED <<today, points, bonus_points, bolts, PPPBet, PPPBoost,
                   BetListing, WetBet, meteo_obs_hourly, POINTS_RECONCILE,
                   uq_pppboost_user_date, HumidityObservation, ChatMessage,
                   mood, threads>>

-----------------------------------------------------------------------------
(* Scenario "odds": the odds of dates around the window are asked on
   successive days, for archives of up to MaxYears days of the date *)

MaxYears == 4
OddsTargets ==
    (0..(MaxDay + 5)) \cup {MAX_OFFSET, MAX_OFFSET + 1, MaxDay + MAX_OFFSET + 1}

NextOdds ==
    \/ \E target \in OddsTargets, n \in 0..MaxYears, signal \in Choices \cup {""} :
          \E rainy \in 0..n : api_ppp_odds(target, rainy, n, signal)
    \/ Tick

SpecOdds == InitResolve /\ [][NextOdds]_vars

-----------------------------------------------------------------------------
(* POST /api/trade/listings/<id>/buy served by two workers: the handler
   reads the listing and the wager, checks them, assigns the fields of the
   two objects and commits; the UPDATE statements of the flush address the
   rows by primary key alone and nothing locks the rows in between *)

\* the reads and the checks of the request
trade_buy_listing_begin(t, me_id, listing_id) ==
    /\ threads[t].pc = "idle"
    /\ threads' = [threads EXCEPT ![t] =
                      [pc |-> "read", uid |-> me_id,
                       err |-> trade_buy_listing_error(me_id, listing_id),
                       listing_id |-> listing_id]]
    /\ UNCHANGED <<today, points, bonus_points, bolts, PPPBet, PPPBoost,
                   BetListing, WetBet, meteo_obs_hourly, POINTS_RECONCILE,
                   HumidityObservation, ChatMessage, mood,
                   uq_pppboost_user_date, last>>

\* the rest of the request: the error response, or the assignments and the
\* commit, which either writes both rows or raises (buy_failed, rollback);
\* the worker keeps the response it has sent
trade_buy_listing_end(t, committed) ==
    /\ threads[t].pc = "read"
    /\ LET r == threads[t]
           bet_id == BetListing[r.listing_id].bet_id
           err == IF r.err = "" /\ ~committed THEN "buy_failed" ELSE r.err
       IN /\ IF err = ""
             THEN /\ PPPBet' = [PPPBet EXCEPT
                                   ![bet_id].user_id = r.uid,
                                   ![bet_id].locked_for_trade = 0,
                                   ![bet_id].funded_from_balance = 0]
                  /\ BetListing' = [BetListing EXCEPT
                                       ![r.listing_id].status = "SOLD",
                                       ![r.listing_id].buyer_id = r.uid,
                                       ![r.listing_id].sale_price =
                                           BetListing[r.listing_id].ask_price]
             ELSE UNCHANGED <<BetListing, PPPBet>>
          /\ last' = [op |-> "trade_buy_listing", uid |-> r.uid, err |-> err,
                      arg |-> listing_args(r.listing_id, None, None)]
          /\ threads' = [threads EXCEPT ![t] =
                            [pc |-> "done", uid |-> r.uid, err |-> err,
                             listing_id |-> r.listing_id]]
    /\ UNCHANGED <<today, points, bonus_points, bolts, PPPBoost, WetBet,
                   meteo_obs_hourly, POINTS_RECONCILE, HumidityObservation,
                   ChatMessage, mood, uq_pppboost_user_date>>

-----------------------------------------------------------------------------
(* Scenario "buy race": a third user has staked 100 and 50 on rain for
   tomorrow and the day after and listed both wagers at their stakes; users
   1 and 2 each send one purchase, through a worker of their own, while the
   days pass *)

InitBuyRace ==
    /\ today = 0
    /\ points = [u \in Users |-> BUDGET_INITIAL]
    /\ bonus_points = [u \in Users |-> 0]
    /\ bolts = [u \in Users |-> 0]
    /\ PPPBet = [i \in 1..2 |->
                   [user_id |-> 3, bet_date |-> i, station_id |-> "",
                    target_time |-> 1800, choice |-> "PLUIE",
                    amount |-> (100 * Scale) \div i, odds |-> PPP_ODDS(i),
                    status |-> "ACTIVE", funded_from_balance |-> 1,
                    verdict |-> "", outcome |-> "", preset_outcome |-> "",
                    locked_for_trade |-> 1]]
    /\ BetListing = [i \in 1..2 |->
                       [user_id |-> 3, status |-> "OPEN", bet_id |-> i,
                        stake |-> (100 * Scale) \div i,
                        ask_price |-> (100 * Scale) \div i,
                        buyer_id |-> 0, sale_price |-> 0]]
    /\ PPPBoost = <<>>
    /\ WetBet = <<>>
    /\ meteo_obs_hourly = {}
    /\ HumidityObservation = {}
    /\ ChatMessage = <<>>
    /\ Position = <<>>
    /\ DailyMood = {}
    /\ PendingMood = {}
    /\ bal_pierre = [u \in Users |-> 0]
    /\ bal_marie = [u \in Users |-> 0]
    /\ POINTS_RECONCILE = FALSE
    /\ uq_pppboost_user_date = FALSE
    /\ threads = [t \in Threads |-> NoThread]
    /\ last = NoRequest

NextBuyRace ==
    \/ \E t \in Threads, listing_id \in Ids(BetListing) :
          trade_buy_listing_begin(t, t, listing_id)
    \/ \E t \in Threads, committed \in BOOLEAN :
          trade_buy_listing_end(t, committed)
    \/ Tick

SpecBuyRace == InitBuyRace /\ [][NextBuyRace]_vars

-----------------------------------------------------------------------------
(* Placement rules *)

\* the distinct clock times of a user's ACTIVE wagers on (date, scope)
ActiveTimes(uid, target, sid) ==
    {PPPBet[i].target_time :
        i \in {j \in Ids(PPPBet) : /\ PPPBet[j].user_id = uid
                                   /\ PPPBet[j].bet_date = target
                                   /\ PPPBet[j].station_id = sid
                                   /\ PPPBet[j].status = "ACTIVE"}}

SlotHasChoice(uid, target, sid, hhmm, choice) ==
    \E j \in Ids(PPPBet) : /\ PPPBet[j].user_id = uid
                           /\ PPPBet[j].bet_date = target
                           /\ PPPBet[j].station_id = sid
                           /\ PPPBet[j].status = "ACTIVE"
                           /\ PPPBet[j].target_time = hhmm
                           /\ PPPBet[j].choice = choice

\* C6 - three-slot rule at placement.  When the user's ACTIVE wagers on
\* (date, scope) already cover three distinct times, a ppp_bet on a fourth
\* time is rejected and changes nothing (no row, no debit); a ppp_bet on one
\* of the covered times, with the choice that slot carries, inside the
\* window and within budget, is accepted and adds one row, whatever the
\* number of stakes already on the slot.
C6_ThreeSlotRule ==
    [][ last'.op = "ppp_bet" =>
          LET a == last'.arg
              u == last'.uid
              times == ActiveTimes(u, a.target, a.sid)
          IN Cardinality(times) >= 3 =>
               /\ a.hhmm \notin times =>
                     /\ last'.err # ""
                     /\ UNCHANGED db
               /\ ( /\ a.hhmm \in times
                    /\ ~SlotHasChoice(u, a.target, a.sid, a.hhmm,
                                      Opposite(a.choice))
                    /\ a.target - today \in 1..MAX_OFFSET
                    /\ a.amount > 0
                    /\ a.amount <= remaining_points(u) ) =>
                     /\ last'.err = ""
                     /\ Len(PPPBet') = Len(PPPBet) + 1
                     /\ PPPBet'[Len(PPPBet')].target_time = a.hhmm
      ]_vars

\* three times are covered, one of them carries two stakes, and a request
\* for a fourth time has just been turned down
C6_Witness ==
    /\ Len(PPPBet) = 4
    /\ Cardinality(ActiveTimes(1, 1, "")) = 3
    /\ last.op = "ppp_bet"
    /\ last.err = "slot_limit"
    /\ last.arg.hhmm \notin ActiveTimes(1, 1, "")

\* C10 - placement window.  ppp_bet accepts a target date only when
\* offset = target - today is in 1..31; for offset <= 0 or offset > 31 it
\* answers with an error and the stored state is unchanged.
C10_PlacementWindow ==
    [][ last'.op = "ppp_bet" =>
          LET offset == last'.arg.target - today
          IN /\ last'.err = "" => offset \in 1..31
             /\ offset \notin 1..31 => (last'.err # "" /\ UNCHANGED db)
      ]_vars

\* a wager stands at the far edge (offset 31) and a request one day
\* further has just been turned down
C10_Witness ==
    /\ \E i \in Ids(PPPBet) : PPPBet[i].bet_date = today + 31
    /\ last.op = "ppp_bet"
    /\ last.arg.target = today + 32
    /\ last.err = "too_far"
    /\ points[1] < BUDGET_INITIAL

-----------------------------------------------------------------------------
(* Boosts *)

\* the aggregate boost of every target present in the table
BoostTargets == {<<PPPBoost[i].user_id, PPPBoost[i].bet_date, PPPBoost[i].station_id>> :
                    i \in Ids(PPPBoost)}

\* the aggregate boost of a target in a given table
AggregateIn(table, uid, d, sid) ==
    SumOver({i \in Ids(table) : /\ table[i].user_id = uid
                                /\ table[i].bet_date = d
                                /\ table[i].station_id = sid},
            [i \in Ids(table) |-> table[i].value])

BoostRejections == {"cap_reached", "no_bolts", "bad_value", "bad_date", "conflict"}

\* C3 - boost cap.  For every (user, date, scope) the aggregate boost never
\* exceeds 5 x 5.0 = 25.0; an accepted purchase adds
\* min(requested, cap - current); once the aggregate is at the cap a further
\* purchase is rejected with cap_reached and the bolt count is unchanged.
C3_BoostCap ==
    /\ [](\A k \in BoostTargets :
             AggregateIn(PPPBoost, k[1], k[2], k[3]) <= 25 * Scale)
    /\ [][ last'.op = "ppp_boost" =>
             LET a == last'.arg
                 u == last'.uid
                 current == AggregateIn(PPPBoost, u, a.target, a.sid)
                 requested == IF a.value = 0 THEN 5 * Scale ELSE a.value
             IN /\ last'.err = "" =>
                     AggregateIn(PPPBoost', u, a.target, a.sid)
                         = current + Min(requested, 25 * Scale - current)
                /\ (current = 25 * Scale /\ requested > 0 /\ a.date_ok) =>
                     /\ last'.err = "cap_reached"
                     /\ UNCHANGED <<bolts, PPPBoost>>
         ]_vars

\* a target sits at the cap after at least two purchases, its owner still holds
\* a bolt, and a further purchase has just been turned down
C3_Witness ==
    /\ boost_total(1, 1, "") = cap_value
    /\ Len(PPPBoost) >= 1
    /\ bolts[1] > 0
    /\ bolts[1] < MaxBolts - 1
    /\ last.op = "ppp_boost"
    /\ last.err = "cap_reached"
    /\ last.arg.sid = ""

\* C8 - bolt accounting.  bolts >= 0 for every user; a boost answered ok
\* lowers the caller's bolts by exactly 1; a rejected boost (cap_reached,
\* no_bolts, bad_value, bad_date, conflict) leaves bolts and the aggregate
\* boost unchanged.
C8_BoltAccounting ==
    /\ [](\A u \in Users : bolts[u] >= 0)
    /\ [][ last'.op = "ppp_boost" =>
             LET a == last'.arg
                 u == last'.uid
             IN /\ last'.err = "" =>
                     /\ bolts'[u] = bolts[u] - 1
                     /\ \A v \in Users \ {u} : bolts'[v] = bolts[v]
                /\ last'.err # "" =>
                     /\ last'.err \in BoostRejections
                     /\ bolts' = bolts
                     /\ \A sid \in BoostScopes :
                          AggregateIn(PPPBoost', u, a.target, sid)
                              = AggregateIn(PPPBoost, u, a.target, sid)
         ]_vars

\* the last bolt has been spent and a further purchase has just been
\* turned down for want of one
C8_Witness ==
    /\ bolts[1] = 0
    /\ Len(PPPBoost) >= 1
    /\ last.op = "ppp_boost"
    /\ last.err = "no_bolts"

-----------------------------------------------------------------------------
(* Trade *)

\* C4 - trade atomicity.  After trade_buy_listing answers ok for a listing
\* with price p, the wager's owner is the buyer, its trade lock is false, its
\* funded_from_balance flag is cleared, the listing is SOLD with buyer_id and
\* sale_price = p, and the remaining_points balances of buyer and seller
\* have moved by exactly p (buyer down, seller up).
C4_TradeAtomicity ==
    [][ \A buyer \in Users, l \in Ids(BetListing) :
          ( /\ last'.op = "trade_buy_listing"
            /\ last'.err = ""
            /\ last'.uid = buyer
            /\ last'.arg.id = l ) =>
              LET p == BetListing[l].ask_price
                  seller == BetListing[l].user_id
                  b == BetListing[l].bet_id
              IN /\ PPPBet'[b].user_id = buyer
                 /\ PPPBet'[b].locked_for_trade = 0
                 /\ PPPBet'[b].funded_from_balance = 0
                 /\ BetListing'[l].status = "SOLD"
                 /\ BetListing'[l].buyer_id = buyer
                 /\ BetListing'[l].sale_price = p
                 /\ remaining_points(buyer)' = remaining_points(buyer) - p
                 /\ remaining_points(seller)' = remaining_points(seller) + p
      ]_vars

\* C5 - no opposite pair.  No user owns two ACTIVE wagers on the same
\* (user, date, scope, time) with opposite choices, whether the second one
\* arrived by placement or by a transfer.
C5_NoOppositePair ==
    \A i, j \in Ids(PPPBet) :
        ( /\ PPPBet[i].status = "ACTIVE"
          /\ PPPBet[j].status = "ACTIVE"
          /\ PPPBet[i].user_id = PPPBet[j].user_id
          /\ PPPBet[i].bet_date = PPPBet[j].bet_date
          /\ PPPBet[i].station_id = PPPBet[j].station_id
          /\ PPPBet[i].target_time = PPPBet[j].target_time )
        => PPPBet[i].choice = PPPBet[j].choice

\* C7 - price floor.  Every listing that references a wager has
\* ask_price >= the amount of that wager, and trade_create_listing rejects a
\* lower ask with price_too_low whatever stake the request body carries.
C7_PriceFloor ==
    /\ [](\A l \in Ids(BetListing) :
            BetListing[l].bet_id # 0 =>
               BetListing[l].ask_price >= PPPBet[BetListing[l].bet_id].amount)
    /\ [][ ( /\ last'.op = "trade_create_listing"
             /\ last'.arg.id \in Ids(PPPBet)
             /\ PPPBet[last'.arg.id].user_id = last'.uid
             /\ PPPBet[last'.arg.id].status = "ACTIVE"
             /\ last'.arg.ask_price # None
             /\ last'.arg.ask_price < PPPBet[last'.arg.id].amount )
           => last'.err = "price_too_low"
         ]_vars

-----------------------------------------------------------------------------
(* Resolution *)

\* stake x (odds + aggregate boost of the wager's (owner, date, scope))
WinPayout(i) ==
    (PPPBet[i].amount
       * (PPPBet[i].odds + AggregateIn(PPPBoost, PPPBet[i].user_id,
                                       PPPBet[i].bet_date,
                                       PPPBet[i].station_id))) \div Scale

\* C2 - idempotent resolution.  Right after resolve_ppp_open_bets has run
\* on a scope, running it again on that scope (no new observation, no clock
\* advance) changes no wager and no balance; a run never touches a wager
\* that is already RESOLVED, and the balances move only by the payouts of
\* the wagers it takes from ACTIVE to RESOLVED with verdict WIN.
C2_IdempotentResolution ==
    /\ [](last.op = "resolve_ppp_open_bets" =>
            /\ resolve_ppp_open_bets_rows(last.arg.scope) = PPPBet
            /\ resolve_ppp_open_bets_points(last.arg.scope) = points)
    /\ [][ last'.op = "resolve_ppp_open_bets" =>
             /\ \A i \in Ids(PPPBet) :
                   PPPBet[i].status = "RESOLVED" => PPPBet'[i] = PPPBet[i]
             /\ \A u \in Users :
                   points'[u] = points[u]
                     + SumOver({i \in Ids(PPPBet) :
                                   /\ PPPBet[i].user_id = u
                                   /\ PPPBet[i].status = "ACTIVE"
                                   /\ PPPBet'[i].status = "RESOLVED"
                                   /\ PPPBet'[i].verdict = "WIN"},
                               [i \in Ids(PPPBet) |-> WinPayout(i)])
         ]_vars

\* a won wager has been resolved and paid, and the run that just ended
\* found nothing left to update
C2_Witness ==
    /\ last.op = "resolve_ppp_open_bets"
    /\ last.arg.updated = 0
    /\ \E i \in Ids(PPPBet) : /\ PPPBet[i].status = "RESOLVED"
                              /\ PPPBet[i].verdict = "WIN"
                              /\ PPPBet[i].station_id = last.arg.scope
    /\ points[1] + Len(PPPBet) * ResolveStake > BUDGET_INITIAL

ResolverOps == {"resolve_ppp_open_bets", "resolve_pending_ppp_bets",
                "ppp_resolve"}

\* C9 - WIN payout.  On every resolver path (resolve_ppp_open_bets with a
\* preset outcome or an observation, resolve_pending_ppp_bets, the
\* ppp_resolve command), when the run records verdict WIN on a wager the
\* owner's stored points grow by stake x (odds + aggregate boost); a LOSE
\* verdict changes no balance.
C9_WinPayout ==
    [][ last'.op \in ResolverOps =>
          \A u \in Users :
             points'[u] = points[u]
               + SumOver({i \in Ids(PPPBet) :
                             /\ PPPBet[i].user_id = u
                             /\ PPPBet'[i] # PPPBet[i]
                             /\ PPPBet'[i].verdict = "WIN"},
                         [i \in Ids(PPPBet) |-> WinPayout(i)])
      ]_vars

-----------------------------------------------------------------------------
(* Budget *)

\* C1 - budget invariant.  remaining_points(user) >= 0 for every user after
\* any sequence of requests, including two requests of the same user whose
\* budget check and debit interleave.
C1_BudgetInvariant == \A u \in Users : remaining_points(u) >= 0


-----------------------------------------------------------------------------
(* Concurrency *)

\* C11 - concurrent resolution.  Whatever the interleaving of two
\* executions of resolve_ppp_open_bets on the same wagers, each winning
\* wager is paid to its owner exactly once: the stored points equal the
\* initial budget, minus every stake, plus one payout per wager that is
\* RESOLVED with verdict WIN.
C11_CreditedOnce ==
    \A u \in Users :
       points[u] =
          BUDGET_INITIAL
            - SumOver({i \in Ids(PPPBet) : PPPBet[i].user_id = u},
                      [i \in Ids(PPPBet) |-> PPPBet[i].amount])
            + SumOver({i \in Ids(PPPBet) : /\ PPPBet[i].user_id = u
                                           /\ PPPBet[i].status = "RESOLVED"
                                           /\ PPPBet[i].verdict = "WIN"},
                      [i \in Ids(PPPBet) |-> WinPayout(i)])


\* C12 - concurrent boost purchases.  For any interleaving of two
\* ppp_boost requests on the same (user, date, scope), the aggregate stays
\* at most the cap and every bolt consumed comes with a strictly positive
\* increment of the aggregate, as in a serial order of the two requests.
C12_BoostSerializable ==
    /\ [](\A sid \in BoostScopes :
             AggregateIn(PPPBoost, 1, 1, sid) <= cap_value)
    /\ [][ \A u \in Users :
              bolts'[u] < bolts[u] =>
                 /\ bolts'[u] = bolts[u] - 1
                 /\ \E sid \in BoostScopes :
                       AggregateIn(PPPBoost', u, 1, sid)
                          > AggregateIn(PPPBoost, u, 1, sid)
         ]_vars


\* C13 - no lost wallet update.  When the credit of a won wager, the
\* credit of a gift and the debit of a stake interleave in any order on one
\* user's points, each of them moves the stored value by exactly its own
\* amount from the value the column holds when it commits, so that the
\* final points are the initial ones minus the stakes plus the credits;
\* no other step changes points.
C13_NoLostUpdate ==
    [][ \A u \in Users :
          /\ (\A t \in Threads : threads'[t] = threads[t] \/ threads[t].pc = "idle")
                => points'[u] = points[u]
          /\ \A t \in Threads :
                threads[t].pc # "idle" /\ threads'[t].pc = "idle" =>
                   points'[u] - points[u] =
                      IF threads[t].pc = "checked"
                      THEN IF last'.err = "" /\ last'.uid = u
                           THEN 0 - last'.arg.amount ELSE 0
                      ELSE IF threads[t].pc = "loaded"
                      THEN IF last'.err = "" /\ last'.arg.to = u
                           THEN last'.arg.amt ELSE 0
                      ELSE SumOver({i \in Ids(PPPBet) :
                                       /\ PPPBet[i].user_id = u
                                       /\ PPPBet[i].status = "ACTIVE"
                                       /\ PPPBet'[i].status = "RESOLVED"
                                       /\ PPPBet'[i].verdict = "WIN"},
                                   [i \in Ids(PPPBet) |-> WinPayout(i)])
      ]_vars

\* a gift to user 1 is in flight with the balance it loaded, and a stake
\* of user 1 has been debited since: the two requests overlap
C13_Witness ==
    /\ last.op = "ppp_bet" /\ last.err = "" /\ last.uid = 1
    /\ \E t \in Threads : /\ threads[t].pc = "loaded"
                          /\ threads[t].arg.amt > 0
                          /\ threads[t].other_points
                                = points[1] + last.arg.amount


-----------------------------------------------------------------------------
(* Settlement rules *)

\* C14 - hourly settlement rule.  A wager that resolve_due_wet_bets
\* resolves gets status RESOLVED and observed_pct = o, the reading of the
\* table rounded to an integer; with target t it records EXACT and
\* payout = stake x odds x 2 when o = t, WIN and payout = stake x odds when
\* 0 < |o - t| <= 3, LOSE and payout = 0 otherwise.  Nothing else of the
\* table changes.
C14_HourlySettlement ==
    [][ last'.op = "resolve_due_wet_bets" =>
          \A i \in Ids(WetBet) :
             \/ WetBet'[i] = WetBet[i]
             \/ LET b == WetBet[i]
                    o == WetBet'[i].observed_pct
                    t == b.target_pct
                IN /\ b.status = "ACTIVE"
                   /\ \E r \in HumidityObservation :
                         10 * o - 5 <= r.humidity /\ r.humidity <= 10 * o + 5
                   /\ WetBet'[i] =
                        [b EXCEPT
                           !.status = "RESOLVED",
                           !.observed_pct = o,
                           !.outcome = IF o = t THEN "EXACT"
                                       ELSE IF Abs(o - t) <= 3 THEN "WIN"
                                       ELSE "LOSE",
                           !.payout = IF o = t
                                      THEN (b.amount * b.odds * 2) \div Scale
                                      ELSE IF Abs(o - t) <= 3
                                      THEN (b.amount * b.odds) \div Scale
                                      ELSE 0]
      ]_vars

\* the page has just resolved a wager on 50 % against a reading of 53 %
C14_Witness ==
    /\ last.op = "resolve_due_wet_bets"
    /\ \E i \in Ids(WetBet) : /\ WetBet[i].status = "RESOLVED"
                              /\ WetBet[i].observed_pct = 53
                              /\ WetBet[i].outcome = "WIN"
                              /\ WetBet[i].payout > 0


\* value of the asset of position i in the last row published on or
\* before its maturity date
EndValue(i) ==
    LET rows == {r \in DailyMood : r.the_date <= Position[i].maturity_date}
        row == CHOOSE r \in rows : \A q \in rows : r.the_date >= q.the_date
    IN IF Position[i].asset = "PIERRE" THEN row.pierre_value
       ELSE row.marie_value

\* f is principal x (end_value / start_value) to the millionth, and 0 when
\* start_value is 0
IsFinalOf(f, i) ==
    IF Position[i].start_value = 0 THEN f = 0
    ELSE 2 * Abs(f * Position[i].start_value
                   - Position[i].principal_points * EndValue(i))
            <= Position[i].start_value

\* C15 - time-locked settlement.  A run of settle_maturities changes
\* nothing when no published row exists for today; otherwise every ACTIVE
\* position with maturity_date <= today becomes SETTLED with
\* settled_points = principal x (end_value / start_value), 0 when
\* start_value is 0, and exactly the settled points of a user's positions
\* of an asset are added to that user's free balance of the asset; every
\* other position is left as it is, and no step ever changes a SETTLED
\* position.
C15_MaturitySettlement ==
    [][ /\ \A i \in Ids(Position) :
              Position[i].status = "SETTLED" => Position'[i] = Position[i]
        /\ last'.op = "settle_maturities" =>
             LET due == {i \in Ids(Position) :
                            /\ Position[i].status = "ACTIVE"
                            /\ Position[i].maturity_date <= today
                            /\ \E r \in DailyMood : r.the_date = today}
                 added(u, asset) ==
                    SumOver({i \in due : /\ Position[i].user_id = u
                                         /\ Position[i].asset = asset},
                            [i \in due |-> Position'[i].settled_points])
             IN /\ \A i \in Ids(Position) \ due : Position'[i] = Position[i]
                /\ \A i \in due :
                      /\ IsFinalOf(Position'[i].settled_points, i)
                      /\ Position'[i] =
                           [Position[i] EXCEPT
                              !.status = "SETTLED",
                              !.settled_points = Position'[i].settled_points]
                /\ \A u \in Users :
                      /\ bal_pierre'[u] = bal_pierre[u] + added(u, "PIERRE")
                      /\ bal_marie'[u] = bal_marie[u] + added(u, "MARIE")
      ]_vars

\* both positions are settled, the PIERRE one at 0.4 x 120 / 100 = 0.48,
\* and the job has run once more since
C15_Witness ==
    /\ last.op = "settle_maturities"
    /\ \A i \in Ids(Position) : Position[i].status = "SETTLED"
    /\ Position[1].settled_points = 480000
    /\ bal_pierre[1] = 480000
    /\ bal_marie[1] = Position[2].settled_points
    /\ today > Position[1].maturity_date
    /\ today > Position[2].maturity_date


-----------------------------------------------------------------------------
(* Balance *)

\* C16 - balance selection.  remaining_points writes nothing.  When the
\* stored points are readable it returns points + bonus_points, except
\* that with reconciliation on and |points + bonus_points - ledger| > 0.5
\* it returns the ledger value; when they are unreadable it returns the
\* ledger value; the ledger value is never below 0.
C16_BalanceSelection ==
    [][ last'.op = "user_solde" =>
          LET u == last'.uid
              stored == points[u] + bonus_points[u]
              ledger == Max(0, BUDGET_INITIAL - ppp_active_funded(u)
                                 - wet_active(u) + wet_won(u)
                                 - sum_trade_spent(u) + sum_trade_earned(u)
                                 + bonus_points[u])
          IN /\ UNCHANGED <<points, bonus_points, bolts, PPPBet, PPPBoost,
                            BetListing, WetBet, bal_pierre, bal_marie>>
             /\ last'.arg.value =
                   IF ~last'.arg.readable THEN ledger
                   ELSE IF POINTS_RECONCILE /\ 2 * Abs(stored - ledger) > Scale
                   THEN ledger
                   ELSE stored
      ]_vars

\* with reconciliation on, the balance just read is the ledger value
\* 500 - 300 and not the stored 500
C16_Witness ==
    /\ last.op = "user_solde"
    /\ last.arg.readable
    /\ POINTS_RECONCILE
    /\ last.arg.value = 200 * Scale
    /\ points[1] + bonus_points[1] = BUDGET_INITIAL


-----------------------------------------------------------------------------
(* Listings *)

\* C17 - cancel.  trade_cancel_listing succeeds exactly when the caller
\* owns the listing and the listing is OPEN; then the listing becomes
\* CANCELLED and the lock flag of its wager is cleared; otherwise it is
\* rejected and changes neither table.  In both cases the owner of every
\* wager and the points of every user stay as they are.
C17_Cancel ==
    [][ last'.op = "trade_cancel_listing" =>
          LET l == last'.arg.id
              u == last'.uid
          IN /\ points' = points /\ bonus_points' = bonus_points
             /\ Len(PPPBet') = Len(PPPBet)
             /\ \A b \in Ids(PPPBet) : PPPBet'[b].user_id = PPPBet[b].user_id
             /\ IF /\ l \in Ids(BetListing)
                   /\ BetListing[l].user_id = u
                   /\ BetListing[l].status = "OPEN"
                THEN /\ last'.err = ""
                     /\ BetListing' =
                           [BetListing EXCEPT ![l].status = "CANCELLED"]
                     /\ PPPBet' =
                           [PPPBet EXCEPT
                              ![BetListing[l].bet_id].locked_for_trade = 0]
                ELSE /\ last'.err # ""
                     /\ BetListing' = BetListing
                     /\ PPPBet' = PPPBet
      ]_vars

\* the owner has just cancelled a listing: it is CANCELLED and the wager,
\* still the owner's, is unlocked
C17_Witness ==
    /\ last.op = "trade_cancel_listing" /\ last.err = ""
    /\ BetListing[last.arg.id].status = "CANCELLED"
    /\ PPPBet[BetListing[last.arg.id].bet_id].locked_for_trade = 0
    /\ PPPBet[BetListing[last.arg.id].bet_id].user_id = last.uid

\* C18 - listing preconditions.  trade_create_listing for a wager is
\* accepted only if the wager is owned by the caller, ACTIVE and not
\* locked for trade, and is rejected in every other case; when accepted it
\* adds one OPEN listing of the caller for that wager and sets the lock
\* flag; when rejected it changes no listing and no wager.
C18_ListingPreconditions ==
    [][ last'.op = "trade_create_listing" /\ last'.arg.id # 0 =>
          LET b == last'.arg.id
              u == last'.uid
              n == Len(BetListing)
              sellable == /\ b \in Ids(PPPBet)
                          /\ PPPBet[b].user_id = u
                          /\ PPPBet[b].status = "ACTIVE"
                          /\ PPPBet[b].locked_for_trade = 0
          IN /\ ~sellable => last'.err # ""
             /\ last'.err # "" => BetListing' = BetListing /\ PPPBet' = PPPBet
             /\ last'.err = "" =>
                   /\ sellable
                   /\ Len(BetListing') = n + 1
                   /\ \A i \in 1..n : BetListing'[i] = BetListing[i]
                   /\ BetListing'[n + 1].status = "OPEN"
                   /\ BetListing'[n + 1].user_id = u
                   /\ BetListing'[n + 1].bet_id = b
                   /\ PPPBet' = [PPPBet EXCEPT ![b].locked_for_trade = 1]
      ]_vars

\* a wager listed, cancelled and listed again: the second listing is OPEN
\* and the wager is locked
C18_Witness ==
    /\ last.op = "trade_create_listing" /\ last.err = ""
    /\ Len(BetListing) = 2
    /\ BetListing[1].status = "CANCELLED"
    /\ BetListing[2].status = "OPEN"
    /\ BetListing[2].bet_id = BetListing[1].bet_id
    /\ PPPBet[BetListing[2].bet_id].locked_for_trade = 1

-----------------------------------------------------------------------------
(* Resolution in one step *)

\* C20 - resolution is one step.  In every reachable state a directional
\* wager carries a verdict (WIN or LOSE) if and only if its status is
\* RESOLVED; and no step takes a RESOLVED wager back to another status or
\* changes its verdict.
C20_ResolutionOneStep ==
    /\ [](\A i \in Ids(PPPBet) :
             PPPBet[i].verdict \in {"WIN", "LOSE"}
                <=> PPPBet[i].status = "RESOLVED")
    /\ [][ \A i \in Ids(PPPBet) :
              PPPBet[i].status = "RESOLVED" =>
                 /\ PPPBet'[i].status = "RESOLVED"
                 /\ PPPBet'[i].verdict = PPPBet[i].verdict ]_vars

-----------------------------------------------------------------------------
(* Hourly payout *)

\* C21 - hourly payout credit.  In every step that takes hourly wagers of a
\* user from ACTIVE to RESOLVED, the stored points of that user grow by
\* exactly the sum of the payouts recorded on those wagers.
C21_HourlyPayoutCredited ==
    [][ \A u \in Users :
          LET done == {i \in Ids(WetBet) :
                          /\ WetBet[i].user_id = u
                          /\ WetBet[i].status = "ACTIVE"
                          /\ WetBet'[i].status = "RESOLVED"}
          IN done # {} =>
                points'[u] = points[u]
                    + SumOver(done, [i \in Ids(WetBet) |-> WetBet'[i].payout])
      ]_vars

-----------------------------------------------------------------------------
(* Retry window *)

\* C22 - bounded retry.  A directional wager that is ACTIVE and whose target
\* timestamp lies more than 14 days before the current moment is not moved
\* to RESOLVED by any step, and the points of its owner stay as they are.
C22_BoundedRetry ==
    [][ \A i \in Ids(PPPBet) :
          /\ PPPBet[i].status = "ACTIVE"
          /\ utc_from(i) + MAX_BACK_DAYS * 1440
                < Ts(today, 0) - PARIS_UTC_OFFSET
          => /\ PPPBet'[i].status = "ACTIVE"
             /\ points'[PPPBet[i].user_id] = points[PPPBet[i].user_id]
      ]_vars

-----------------------------------------------------------------------------
(* Deferral *)

\* C23 - deferral without observation.  In a step of a resolver, an ACTIVE
\* wager without preset outcome for which no observation at or after its
\* target timestamp is stored keeps its row; a user none of whose wagers
\* changes keeps the stored points; and such a wager that the step changes
\* because the observation is now stored becomes RESOLVED with outcome
\* PLUIE iff the measured value is above 0 mm and verdict WIN iff that
\* outcome is the wager's choice.
C23_Deferral ==
    [][ last'.op \in ResolverOps =>
          /\ \A i \in Ids(PPPBet) :
                /\ PPPBet[i].status = "ACTIVE"
                /\ PPPBet[i].preset_outcome = ""
                /\ PPPBet[i].outcome = ""
                => LET obs == first_observation_after(PPPBet[i].station_id,
                                                      utc_from(i))
                       o == IF obs.mm > 0 THEN "PLUIE" ELSE "PAS_PLUIE"
                   IN IF ~obs.found
                      THEN PPPBet'[i] = PPPBet[i]
                      ELSE \/ PPPBet'[i] = PPPBet[i]
                           \/ PPPBet'[i] =
                                [PPPBet[i] EXCEPT
                                   !.status = "RESOLVED",
                                   !.outcome = o,
                                   !.verdict = Verdict(o, PPPBet[i].choice)]
          /\ \A u \in Users :
                (\A i \in Ids(PPPBet) :
                    PPPBet[i].user_id = u => PPPBet'[i] = PPPBet[i])
                => points'[u] = points[u]
      ]_vars

-----------------------------------------------------------------------------
(* Placement effect *)

\* C24 - placement effect.  An accepted ppp_bet of amount a appends exactly
\* one wager, owned by the caller, ACTIVE, unlocked, funded from the
\* balance, of amount a and with the odds of the table for the offset of
\* that day (no history exists for the default scope), and takes exactly a
\* from the caller's stored points and nothing from anybody else; and no
\* step of any operation changes the odds or the amount of a stored wager.
C24_PlacementEffect ==
    [][ /\ \A i \in Ids(PPPBet) :
              /\ i \in Ids(PPPBet')
              /\ PPPBet'[i].odds = PPPBet[i].odds
              /\ PPPBet'[i].amount = PPPBet[i].amount
        /\ last'.op = "ppp_bet" /\ last'.err = "" =>
              LET n == Len(PPPBet)
                  a == last'.arg.amount
                  u == last'.uid
              IN /\ Len(PPPBet') = n + 1
                 /\ \A i \in 1..n : PPPBet'[i] = PPPBet[i]
                 /\ PPPBet'[n + 1].user_id = u
                 /\ PPPBet'[n + 1].status = "ACTIVE"
                 /\ PPPBet'[n + 1].locked_for_trade = 0
                 /\ PPPBet'[n + 1].funded_from_balance = 1
                 /\ PPPBet'[n + 1].amount = a
                 /\ PPPBet'[n + 1].verdict = ""
                 /\ PPPBet'[n + 1].odds = PPP_ODDS(last'.arg.target - today)
                 /\ points' = [points EXCEPT ![u] = @ - a]
      ]_vars

\* a first stake of 50 for the fifth day ahead: 500 became 450 and the
\* wager carries the odds 1.3
C24_Witness ==
    /\ last.op = "ppp_bet" /\ last.err = ""
    /\ last.arg.amount = 50 * Scale
    /\ points[last.uid] = 450 * Scale
    /\ PPPBet[Len(PPPBet)].user_id = last.uid
    /\ PPPBet[Len(PPPBet)].odds = 130
    /\ PPPBet[Len(PPPBet)].bet_date = today + 5
    /\ PPPBet[Len(PPPBet)].station_id = ""

-----------------------------------------------------------------------------
(* Boost scopes *)

\* C25 - boost scopes are independent and unique per key.  The table holds
\* at most one row per (user, date, scope); a ppp_boost for one scope is
\* answered as if the table held no row of any other scope, that is by
\* the value, the date, the aggregate of its own scope and the bolts of
\* the user alone; and it leaves the aggregate of every other scope as it
\* is.
C25_ScopesIndependent ==
    /\ [](\A i, j \in Ids(PPPBoost) :
             /\ PPPBoost[i].user_id = PPPBoost[j].user_id
             /\ PPPBoost[i].bet_date = PPPBoost[j].bet_date
             /\ PPPBoost[i].station_id = PPPBoost[j].station_id
             => i = j)
    /\ [][ last'.op = "ppp_boost" =>
             LET u == last'.uid
                 d == last'.arg.target
                 a == last'.arg.sid
             IN /\ last'.err =
                      IF inc_req(last'.arg.value) <= 0 THEN "bad_value"
                      ELSE IF ~last'.arg.date_ok THEN "bad_date"
                      ELSE IF cap_reached(boost_total(u, d, a))
                      THEN "cap_reached"
                      ELSE IF ~upd_bolts(u) THEN "no_bolts"
                      ELSE ""
                /\ \A b \in BoostScopes \ {a} :
                      SumOver({i \in Ids(PPPBoost') :
                                  /\ PPPBoost'[i].user_id = u
                                  /\ PPPBoost'[i].bet_date = d
                                  /\ PPPBoost'[i].station_id = b},
                              [i \in Ids(PPPBoost') |-> PPPBoost'[i].value])
                         = boost_total(u, d, b)
         ]_vars

-----------------------------------------------------------------------------
(* Published values *)

\* C26 - published outcomes are immutable.  There is never more than one
\* DailyMood row per date, and no step removes or changes a DailyMood row:
\* every row published stays in the table with its values.
C26_PublishedImmutable ==
    /\ [](\A r, q \in DailyMood : r.the_date = q.the_date => r = q)
    /\ [][ \A r \in DailyMood : r \in DailyMood' ]_vars

-----------------------------------------------------------------------------
(* C27 *)

\* q is num / den rounded to the hundredth
IsRounded(q, num, den) == 2 * Abs(q * den - num) <= den

\* C27: for a date 1 to 31 days ahead with a historical sample, each side of
\* the answer of the odds engine is (hist + table + k x forecast) / (2 + k)
\* rounded to the hundredth, with k = 3, 2, 1 at 1, 2, 3 days when a
\* forecast signal exists (forecast odds 1.0 for the signalled side, 2.0 for
\* the other) and k = 0 (the mean of hist and table) further ahead or
\* without a signal; without a sample both sides are the table value; for a
\* date outside 1..31 days ahead the answer is an error without odds
C27_OddsBlend ==
    last.op = "api_ppp_odds" =>
        LET a == last.arg
            r == a.res
            d == a.target - today
            k == IF a.signal = "" THEN 0
                 ELSE IF d = 1 THEN 3
                 ELSE IF d = 2 THEN 2
                 ELSE IF d = 3 THEN 1
                 ELSE 0
            f_pluie == IF a.signal = "PLUIE" THEN 100 ELSE 200
            f_pas == IF a.signal = "PAS_PLUIE" THEN 100 ELSE 200
        IN /\ d \notin 1..31 =>
                /\ r.error # ""
                /\ r.combined_pluie = 0
                /\ r.combined_pas_pluie = 0
           /\ d \in 1..31 /\ a.n = 0 =>
                /\ r.error = ""
                /\ r.combined_pluie = PPP_ODDS(d)
                /\ r.combined_pas_pluie = PPP_ODDS(d)
           /\ d \in 1..31 /\ a.n > 0 =>
                /\ r.error = ""
                /\ IsRounded(r.combined_pluie,
                             r.odd_hist_pluie + PPP_ODDS(d) + k * f_pluie, 2 + k)
                /\ IsRounded(r.combined_pas_pluie,
                             r.odd_hist_pas_pluie + PPP_ODDS(d) + k * f_pas,
                             2 + k)

\* one rainy day out of two, rain forecast for tomorrow: (2.0 + 1.0 + 3 x 1.0)
\* / 5 = 1.20 for rain and (2.0 + 1.0 + 3 x 2.0) / 5 = 1.80 against
C27_Witness ==
    /\ last.op = "api_ppp_odds"
    /\ last.arg.target = today + 1
    /\ last.arg.n = 2
    /\ last.arg.rainy = 1
    /\ last.arg.signal = "PLUIE"
    /\ last.arg.res.odd_hist_pluie = 200
    /\ last.arg.res.combined_pluie = 120
    /\ last.arg.res.combined_pas_pluie = 180

-----------------------------------------------------------------------------
(* C28 *)

\* C28: from the bootstrap state on, the stored balance points + bonus_points
\* of every user and the ledger value computed inside remaining_points differ
\* by at most 0.5, so that remaining_points returns the same value with
\* POINTS_RECONCILE on and off
C28_LedgerAgrees ==
    \A u \in Users :
        /\ 2 * Abs(points[u] + bonus_points[u] - ledger_points(u)) <= Scale
        /\ remaining_points(u) = points[u] + bonus_points[u]

-----------------------------------------------------------------------------
(* C29 *)

\* C29: when two different buyers run trade_buy_listing on one OPEN listing
\* and their steps interleave, at most one of them is answered ok, and once
\* the listing is sold its buyer_id and the owner of its wager are the same
\* user
C29_SingleSale ==
    \A l \in Ids(BetListing) :
        /\ Cardinality({t \in Threads : /\ threads[t].pc = "done"
                                        /\ threads[t].listing_id = l
                                        /\ threads[t].err = ""}) <= 1
        /\ BetListing[l].status = "SOLD" =>
              PPPBet[BetListing[l].bet_id].user_id = BetListing[l].buyer_id

-----------------------------------------------------------------------------
(* C30 *)

\* C30: in every reachable state a directional wager has its lock flag set
\* if and only if exactly one OPEN listing references it, and every OPEN
\* listing that names a wager refers to an existing ACTIVE wager owned by
\* the seller of the listing
C30_LockMatchesListing ==
    /\ \A i \in Ids(PPPBet) :
          PPPBet[i].locked_for_trade = 1 <=>
              Cardinality({l \in Ids(BetListing) :
                              /\ BetListing[l].status = "OPEN"
                              /\ BetListing[l].bet_id = i}) = 1
    /\ \A l \in Ids(BetListing) :
          BetListing[l].status = "OPEN" /\ BetListing[l].bet_id # 0 =>
              /\ BetListing[l].bet_id \in Ids(PPPBet)
              /\ PPPBet[BetListing[l].bet_id].status = "ACTIVE"
              /\ PPPBet[BetListing[l].bet_id].user_id = BetListing[l].user_id

====
